---- MODULE Spec2Model ----
(***************************************************************************)
(* Model of canal (imagvfx/canal): the path history navigator, the         *)
(* environment table (getEnv / setEnv / EntryEnvirons) and the template    *)
(* expander (evalEnvString) of src/app.go, together with the cached        *)
(* EntryEnvirons variant of src/unnamed/part_004.                          *)
(*                                                                         *)
(* A Go string is modelled as a sequence of one-character strings, so that *)
(* splitting, trimming, prefix and suffix tests are computed, not assumed. *)
(***************************************************************************)
EXTENDS Integers, Sequences, FiniteSets, TLC

VARIABLES
    \* ---- the App struct (src/app.go) and what its last call did
    history,     \* a.history
    historyIdx,  \* a.historyIdx (0-based, as in the code)
    state,       \* a.state: Nil or the State record
    session,     \* a.session # ""
    cachedEnvs,  \* a.cachedEnvs: the paths it holds a table for
    navCall,     \* the last call; of GoTo, GoBack and GoForward also the
                 \* argument and the result
    envFetches,  \* remote entryEnvirons fetches for the active path since
                 \* it became active or was reloaded
    \* ---- environment table (getEnv, setEnv, EntryEnvirons layering)
    envTab,      \* the table: a sequence of "key=value" strings
    envCall,     \* the last call on the table, with its arguments and result
    envStart,    \* the table the run started from (or EntryEnvirons last built)
    \* ---- template expander (evalEnvString)
    evalV,       \* local v of evalEnvString
    evalEnv,     \* argument env of evalEnvString
    evalPc,      \* "loop" while inside the for loop, "done" after return
    evalStep,    \* the last iteration: what it matched and what it replaced
    evalTmpl,    \* the argument v evalEnvString was called with
    evalSeen,    \* the values v had at the head of the earlier iterations
    \* ---- scene files (NewElement, ListElements, LastVersionOfElement, OpenScene)
    config,      \* a.config as far as the scene operations read it, with the
                 \* table EntryEnvirons returns for the leaf
    disk,        \* the directories and files on the local disk
    sceneCall,   \* the last scene operation, with its arguments and result
    \* ---- entry page (ListEntries, the sort rules, the exposed properties)
    entrySorters, \* a.entrySorters: the Sorter of each entry type
    assigned,    \* a.assigned: the paths of the entries assigned to the user
    hostSubs,    \* the sub-entries the host holds for the listed entry
    listCall,    \* the last call of the entry page, with its result
    \* ---- calls of the navigator that run at the same time
    inFlight     \* the calls under way, each with its position in its handler

envVars == <<envTab, envCall, envStart>>
evalVars == <<evalV, evalEnv, evalPc, evalStep, evalTmpl, evalSeen>>
navVars ==
    <<history, historyIdx, state, session, cachedEnvs, navCall, envFetches, inFlight>>
sceneVars == <<config, disk, sceneCall>>
listVars == <<entrySorters, assigned, hostSubs, listCall>>
vars == <<history, historyIdx, state, session, cachedEnvs, navCall, envFetches,
          envTab, envCall, envStart, evalV, evalEnv, evalPc, evalStep, evalTmpl, evalSeen,
          config, disk, sceneCall, entrySorters, assigned, hostSubs, listCall,
          inFlight>>

----------------------------------------------------------------------------
(* Bounds of the model *)

MaxEnvLen == 3      \* longest environment table explored
MaxTmplLen == 3     \* longest generated template
MaxHist == 3        \* longest history explored
MaxFetches == 2     \* most environment fetches counted for one active path
MaxCalls == 2       \* most calls of the navigator under way at once

----------------------------------------------------------------------------
(* Strings *)

Digits == {"0", "1", "2", "3", "4", "5", "6", "7", "8", "9"}
Letters ==
    {"a", "b", "c", "d", "e", "f", "g", "h", "i", "j", "k", "l", "m", "n", "o",
     "p", "q", "r", "s", "t", "u", "v", "w", "x", "y", "z",
     "A", "B", "C", "D", "E", "F", "G", "H", "I", "J", "K", "L", "M", "N", "O",
     "P", "Q", "R", "S", "T", "U", "V", "W", "X", "Y", "Z"}

\* \w of Go's regexp (RE2): letters, digits and the underscore
WordChars == Letters \cup Digits \cup {"_"}

\* unicode.IsSpace, as far as the model's alphabet goes
SpaceChars == {" "}

\* the indexes of s holding character c
IndexesOf(s, c) == {i \in 1..Len(s) : s[i] = c}

\* strings.Index for a one-character separator: 0 when absent (Go: -1)
IndexOf(s, c) ==
    IF IndexesOf(s, c) = {} THEN 0
    ELSE CHOOSE i \in IndexesOf(s, c) : \A j \in IndexesOf(s, c) : i <= j

\* strings.SplitN(s, sep, n) for a one-character sep: n < 0 splits at every
\* sep, n > 0 returns at most n parts, the last one unsplit
RECURSIVE SplitN(_, _, _)
SplitN(s, sep, n) ==
    IF n = 1 \/ IndexOf(s, sep) = 0 THEN <<s>>
    ELSE LET i == IndexOf(s, sep)
         IN  <<SubSeq(s, 1, i - 1)>>
             \o SplitN(SubSeq(s, i + 1, Len(s)), sep, IF n < 0 THEN n ELSE n - 1)

\* strings.TrimSpace
RECURSIVE TrimSpace(_)
TrimSpace(s) ==
    IF s = <<>> THEN s
    ELSE IF s[1] \in SpaceChars THEN TrimSpace(Tail(s))
    ELSE IF s[Len(s)] \in SpaceChars THEN TrimSpace(SubSeq(s, 1, Len(s) - 1))
    ELSE s

\* strings.HasPrefix / strings.HasSuffix
HasPrefix(s, p) == Len(s) >= Len(p) /\ SubSeq(s, 1, Len(p)) = p
HasSuffix(s, p) == Len(s) >= Len(p) /\ SubSeq(s, Len(s) - Len(p) + 1, Len(s)) = p

\* strings.TrimPrefix / strings.TrimSuffix
TrimPrefix(s, p) == IF HasPrefix(s, p) THEN SubSeq(s, Len(p) + 1, Len(s)) ELSE s
TrimSuffix(s, p) == IF HasSuffix(s, p) THEN SubSeq(s, 1, Len(s) - Len(p)) ELSE s

----------------------------------------------------------------------------
(* Environment table: src/app.go getEnv, setEnv, EntryEnvirons *)

\* the index getEnv and setEnv stop at, scanning env from its end: the
\* highest i whose entry splits (at every "=") into exactly two parts with
\* the trimmed first part equal to key; 0 when the scan finds none
RECURSIVE scanEnv(_, _, _)
scanEnv(key, env, i) ==
    IF i < 1 THEN 0
    ELSE LET kv == SplitN(env[i], "=", -1)
         IN  IF Len(kv) # 2 THEN scanEnv(key, env, i - 1)
             ELSE IF TrimSpace(kv[1]) = key THEN i
             ELSE scanEnv(key, env, i - 1)

\* getEnv(key, env): the trimmed second part of the entry found, else ""
getEnv(key, env) ==
    LET i == scanEnv(key, env, Len(env))
    IN  IF i = 0 THEN <<>>
        ELSE TrimSpace(SplitN(env[i], "=", -1)[2])

\* setEnv(key, val, env): replace the entry found, else append
setEnv(key, val, env) ==
    LET idx == scanEnv(key, env, Len(env))
    IN  IF idx = 0 THEN Append(env, key \o <<"=">> \o val)
        ELSE [env EXCEPT ![idx] = key \o <<"=">> \o val]

\* the loops of EntryEnvirons: setEnv for each pair, in order
RECURSIVE setEnvAll(_, _)
setEnvAll(pairs, env) ==
    IF pairs = <<>> THEN env
    ELSE setEnvAll(Tail(pairs), setEnv(pairs[1][1], pairs[1][2], env))

\* config.Envs entries are split with SplitN(e, "=", 2) into name and value
RECURSIVE configPairs(_)
configPairs(envs) ==
    IF envs = <<>> THEN <<>>
    ELSE LET kv == SplitN(envs[1], "=", 2)
         IN  <<kv>> \o configPairs(Tail(envs))

\* The table EntryEnvirons returns: os.Environ(), then the entry service's
\* pairs (forgeEnv), then config.Envs, then the user's "environ" data section
EntryEnvironsTable(osEnviron, forgeEnv, configEnvs, userData) ==
    setEnvAll(userData,
        setEnvAll(configPairs(configEnvs),
            setEnvAll(forgeEnv, osEnviron)))

----------------------------------------------------------------------------
(* Inputs of the environment table model *)

Names == {<<"A">>, <<"B">>}

Vals == {<<>>, <<"x">>, <<"x", "=", "y">>, <<" ", "x">>}

\* entries a process environment can hold: well formed, padded with blanks,
\* without "=", and with "=" inside the value
OsEntries ==
    { <<"A", "=", "x">>, <<"A", "=", "y">>, <<"B", "=", "y">>,
      <<" ", "A", " ", "=", " ", "x", " ">>, <<"A">>,
      <<"A", "=", "x", "=", "y">> }

InitTables == UNION {[1..n -> OsEntries] : n \in 0..2}

\* the layers EntryEnvirons puts together
OsEnvirons == { <<>>, << <<"A", "=", "h">> >>,
                << <<"A", "=", "h">>, <<"B", "=", "h">> >> }
ForgeEnvs == { <<>>, << <<<<"A">>, <<"e">>>> >>, << <<<<"B">>, <<"e">>>> >>,
               << <<<<"A">>, <<"e">>>>, <<<<"B">>, <<"e">>>> >> }
ConfigEnvs == { <<>>, << <<"A", "=", "c">> >>, << <<"B", "=", "c">> >> }
UserDatas == { <<>>, << <<<<"B">>, <<"u">>>> >> }

Nil == [nil |-> TRUE]

\* no call has been made yet
NoCall == [op |-> "none", arg |-> <<>>, ret |-> "ok", resolved |-> FALSE, cut |-> 0]

IdleNav ==
    /\ history = <<>> /\ historyIdx = 0 /\ state = Nil /\ session = FALSE
    /\ cachedEnvs = {} /\ navCall = NoCall /\ envFetches = 0
    /\ inFlight = <<>>

IdleEnv == envTab = <<>> /\ envCall = [op |-> "none"] /\ envStart = <<>>
IdleEval ==
    /\ evalV = <<>> /\ evalEnv = <<>> /\ evalPc = "idle"
    /\ evalStep = [op |-> "none"] /\ evalTmpl = <<>> /\ evalSeen = {}

IdleList ==
    /\ entrySorters = <<>> /\ assigned = {} /\ hostSubs = {}
    /\ listCall = [op |-> "none"]

IdleScene ==
    /\ config = [Environ |-> <<>>, Forge |-> <<>>, Envs |-> <<>>, Programs |-> <<>>]
    /\ disk = [dirs |-> {}, files |-> {}]
    /\ sceneCall = [op |-> "none"]

InitEnv ==
    /\ envTab \in InitTables
    /\ envStart = envTab
    /\ envCall = [op |-> "none"]
    /\ IdleEval
    /\ IdleNav
    /\ IdleScene
    /\ IdleList

\* a call of getEnv on the table
GetEnvCall ==
    \E key \in Names :
        /\ envCall' = [op |-> "getEnv", key |-> key, ret |-> getEnv(key, envTab)]
        /\ UNCHANGED <<envTab, envStart, evalVars, navVars, sceneVars, listVars>>

\* a call env = setEnv(key, val, env)
SetEnvCall ==
    \E key \in Names, val \in Vals :
        /\ Len(setEnv(key, val, envTab)) <= MaxEnvLen
        /\ envTab' = setEnv(key, val, envTab)
        /\ envCall' = [op |-> "setEnv", key |-> key, val |-> val, pre |-> envTab]
        /\ UNCHANGED <<envStart, evalVars, navVars, sceneVars, listVars>>

\* the table building part of EntryEnvirons: it starts from a fresh
\* os.Environ(), so it is the first call of a run on the table
BuildEnvirons ==
    \E os \in OsEnvirons, forge \in ForgeEnvs, cfg \in ConfigEnvs, user \in UserDatas :
        /\ envCall.op = "none" /\ envTab = <<>>
        /\ envTab' = EntryEnvironsTable(os, forge, cfg, user)
        /\ envStart' = envTab'
        /\ envCall' = [op |-> "EntryEnvirons", os |-> os, forge |-> forge,
                       config |-> cfg, user |-> user]
        /\ UNCHANGED <<evalVars, navVars, sceneVars, listVars>>

NextEnv == GetEnvCall \/ SetEnvCall \/ BuildEnvirons

SpecEnv == InitEnv /\ [][NextEnv]_vars

----------------------------------------------------------------------------
(* Claims about the environment table, checked under SpecEnv *)

\* An entry read as the specification reads it: key and value are the text
\* before and after the first "=", trimmed; an entry without "=" has neither
HasEq(e) == IndexOf(e, "=") # 0
EntryKey(e) == TrimSpace(SplitN(e, "=", 2)[1])
EntryValue(e) == TrimSpace(SplitN(e, "=", 2)[2])
KeyIdxs(name, env) == {i \in 1..Len(env) : HasEq(env[i]) /\ EntryKey(env[i]) = name}
MaxOf(S) == CHOOSE i \in S : \A j \in S : j <= i
UniqueKeys(env) == \A name \in Names : Cardinality(KeyIdxs(name, env)) <= 1

\* a layer as a list of <<name, value>> pairs: the value it gives a name
LayerHas(pairs, name) == \E i \in 1..Len(pairs) : pairs[i][1] = name
LayerVal(pairs, name) ==
    pairs[MaxOf({i \in 1..Len(pairs) : pairs[i][1] = name})][2]
LayersNaming(name) ==
    Cardinality({l \in {"os", "forge", "config"} :
        LayerHas(IF l = "os" THEN configPairs(envCall.os)
                 ELSE IF l = "forge" THEN envCall.forge
                 ELSE configPairs(envCall.config), name)})

\* C6: for a name defined in more than one layer, Lookup on the table
\* EntryEnvirons built returns the entry service's value in preference to
\* the statically configured one, and that one in preference to the host
\* process's value.
C6_EntryValueOverridesConfig ==
    envCall.op = "EntryEnvirons" =>
        \A name \in Names :
            (LayersNaming(name) >= 2 /\ ~LayerHas(envCall.user, name)) =>
                getEnv(name, envTab) =
                    IF LayerHas(envCall.forge, name)
                    THEN LayerVal(envCall.forge, name)
                    ELSE LayerVal(configPairs(envCall.config), name)

\* C7: getEnv returns the trimmed value of the highest-index entry whose
\* trimmed key is the name, whatever the value contains ("=" included), and
\* the empty string when no entry has that key; entries without "=" are
\* skipped.
C7_GetEnvLastMatchAnyValue ==
    envCall.op = "getEnv" =>
        envCall.ret =
            IF KeyIdxs(envCall.key, envTab) = {} THEN <<>>
            ELSE EntryValue(envTab[MaxOf(KeyIdxs(envCall.key, envTab))])

\* C8: from a table with at most one entry per key, any sequence of setEnv
\* calls keeps at most one entry per key: setEnv on a present key replaces
\* that entry at its index and changes nothing else, setEnv on an absent key
\* appends exactly one entry.
C8_SetEnvKeepsKeysUnique ==
    /\ UniqueKeys(envStart) => UniqueKeys(envTab)
    /\ (envCall.op = "setEnv" /\ UniqueKeys(envCall.pre)) =>
          LET new == envCall.key \o <<"=">> \o envCall.val
              at == KeyIdxs(envCall.key, envCall.pre)
          IN  IF at = {} THEN envTab = Append(envCall.pre, new)
              ELSE /\ Len(envTab) = Len(envCall.pre)
                   /\ \A i \in 1..Len(envTab) :
                         envTab[i] = IF i \in at THEN new ELSE envCall.pre[i]

----------------------------------------------------------------------------
(* Template expander: src/app.go evalEnvString *)

\* the last index of the run of word characters that starts at index i
RECURSIVE wordRunEnd(_, _)
wordRunEnd(v, i) ==
    IF i + 1 <= Len(v) /\ v[i + 1] \in WordChars THEN wordRunEnd(v, i + 1) ELSE i

\* reA.FindStringIndex(v) for `[$]\w+`: the leftmost match, \w+ greedy, as
\* Go's <<start, end>> (0-based, end exclusive); <<>> for nil
reAFind(v) ==
    LET starts == {i \in 1..Len(v) - 1 : v[i] = "$" /\ v[i + 1] \in WordChars}
    IN  IF starts = {} THEN <<>>
        ELSE LET i == CHOOSE i \in starts : \A j \in starts : i <= j
             IN  <<i - 1, wordRunEnd(v, i + 1)>>

\* reB.FindStringIndex(v) for `[$][{]\w+[}]`
reBFind(v) ==
    LET starts == {i \in 1..Len(v) - 3 :
                      /\ v[i] = "$" /\ v[i + 1] = "{" /\ v[i + 2] \in WordChars
                      /\ wordRunEnd(v, i + 2) + 1 <= Len(v)
                      /\ v[wordRunEnd(v, i + 2) + 1] = "}"}
    IN  IF starts = {} THEN <<>>
        ELSE LET i == CHOOSE i \in starts : \A j \in starts : i <= j
             IN  <<i - 1, wordRunEnd(v, i + 2) + 1>>

\* a plausible slip: the comparison of the two match positions inverted
chooseIdxsInverted(a, b) ==
    IF a # <<>> /\ b # <<>> THEN (IF a[1] > b[1] THEN a ELSE b)
    ELSE IF b # <<>> THEN b ELSE a

\* idxs: which of the two matches the iteration replaces
chooseIdxs(a, b) ==
    IF a # <<>> /\ b # <<>> THEN (IF a[1] < b[1] THEN a ELSE b)
    ELSE IF b # <<>> THEN b ELSE a

\* the name between "$" and the end of the match, braces stripped
envKey(v, idxs) ==
    TrimSuffix(TrimPrefix(SubSeq(v, idxs[1] + 2, idxs[2]), <<"{">>), <<"}">>)

\* one iteration's new v: pre + envv + post
replaceMatch(v, idxs, env) ==
    SubSeq(v, 1, idxs[1]) \o getEnv(envKey(v, idxs), env)
        \o SubSeq(v, idxs[2] + 1, Len(v))

TmplChars == {"$", "A", "{", "}", "-"}

ExampleTemplates ==
    { <<"$", "A", "-", "$", "{", "B", "}">>,
      <<"$", "{", "A", "}", "$", "A">>,
      <<"$", "A", "_", "$", "B">>,
      <<"x", "$", "{", "B", "}", "$">> }

Templates == ExampleTemplates \cup UNION {[1..n -> TmplChars] : n \in 0..MaxTmplLen}

EnvAxBy == << <<"A", "=", "x">>, <<"B", "=", "y">> >>
EnvAx == << <<"A", "=", "x">> >>
EnvCycle == << <<"A", "=", "$", "B">>, <<"B", "=", "$", "{", "A", "}">> >>
EnvChain == << <<"A", "=", "$", "B">>, <<"B", "=", "x">> >>
EnvEq == << <<"A", "=", "$", "{", "B", "}">>, <<"B", "=", "x", "=", "y">> >>
EnvSelf == << <<"A", "=", "$", "A">> >>

EvalEnvs == {<<>>, EnvAxBy, EnvAx, EnvCycle, EnvChain, EnvEq, EnvSelf}

InitEval ==
    /\ evalTmpl \in Templates
    /\ evalEnv \in EvalEnvs
    /\ evalV = evalTmpl
    /\ evalPc = "loop"
    /\ evalStep = [op |-> "none"]
    /\ evalSeen = {}
    /\ IdleEnv
    /\ IdleNav
    /\ IdleScene
    /\ IdleList

\* one pass through the body of evalEnvString's for loop
EvalIter ==
    /\ evalPc = "loop"
    /\ LET a == reAFind(evalV)
           b == reBFind(evalV)
       IN  IF a = <<>> /\ b = <<>>
           THEN /\ evalPc' = "done"
                /\ evalStep' = [op |-> "break"]
                /\ UNCHANGED evalV
           ELSE LET idxs == chooseIdxs(a, b)
                IN  /\ evalV' = replaceMatch(evalV, idxs, evalEnv)
                    /\ evalStep' = [op |-> "replace", pre |-> evalV,
                                    s |-> idxs[1], e |-> idxs[2]]
                    /\ UNCHANGED evalPc
    /\ evalSeen' = evalSeen \cup {evalV}
    /\ UNCHANGED <<evalEnv, evalTmpl, envVars, navVars, sceneVars, listVars>>

NextEval == EvalIter

SpecEval == InitEval /\ [][NextEval]_vars

----------------------------------------------------------------------------
(* Claims about the template expander, checked under SpecEval *)

\* A reference, stated from the syntax alone: "$" followed by a word
\* character, or "${", one or more word characters and "}"
IsPlainRefAt(v, i) == i < Len(v) /\ v[i] = "$" /\ v[i + 1] \in WordChars
BraceCloses(v, i) ==
    {j \in i + 3..Len(v) : v[j] = "}" /\ \A k \in i + 2..j - 1 : v[k] \in WordChars}
IsBraceRefAt(v, i) ==
    i < Len(v) /\ v[i] = "$" /\ v[i + 1] = "{" /\ BraceCloses(v, i) # {}
IsRefAt(v, i) == IsPlainRefAt(v, i) \/ IsBraceRefAt(v, i)
RefStarts(v) == {i \in 1..Len(v) : IsRefAt(v, i)}
\* the last index of the reference at i, and the WORD it names
RefLast(v, i) ==
    IF IsPlainRefAt(v, i)
    THEN MaxOf({e \in i + 1..Len(v) : \A k \in i + 1..e : v[k] \in WordChars})
    ELSE MaxOf(BraceCloses(v, i))
RefWord(v, i) ==
    IF IsPlainRefAt(v, i) THEN SubSeq(v, i + 1, RefLast(v, i))
    ELSE SubSeq(v, i + 2, RefLast(v, i) - 1)
FirstRef(v) == CHOOSE i \in RefStarts(v) : \A j \in RefStarts(v) : i <= j

\* C9: evalEnvString terminates for every template and every table, also
\* when a substituted value holds further references: expansion never loops
\* without bound.  The loop is deterministic in v (env is fixed), so it
\* terminates only if no iteration starts from a v an earlier one started from.
C9_EvalEnvStringTerminates == evalPc = "loop" => evalV \notin evalSeen

\* C10: every iteration replaces the reference that starts at the lowest
\* index by the Lookup (getEnv) value of its WORD, the result holds no
\* reference, "$A-${B}" with A=x, B=y gives "x-y" and "${A}$A" gives "xx".
C10_LowestReferenceReplaced ==
    /\ evalStep.op = "replace" =>
          LET p == evalStep.pre
              i == FirstRef(p)
          IN  /\ RefStarts(p) # {}
              /\ evalStep.s = i - 1
              /\ evalStep.e = RefLast(p, i)
              /\ evalV = SubSeq(p, 1, i - 1) \o getEnv(RefWord(p, i), evalEnv)
                            \o SubSeq(p, RefLast(p, i) + 1, Len(p))
    /\ evalPc = "done" => RefStarts(evalV) = {}
    /\ (evalPc = "done" /\ evalEnv = EnvAxBy
           /\ evalTmpl = <<"$", "A", "-", "$", "{", "B", "}">>)
          => evalV = <<"x", "-", "y">>
    /\ (evalPc = "done" /\ evalEnv \in {EnvAxBy, EnvAx}
           /\ evalTmpl = <<"$", "{", "A", "}", "$", "A">>)
          => evalV = <<"x", "x">>

\* both syntaxes were present, the braced one at the lower index, and the
\* expansion ran to its end
C10_Witness ==
    /\ evalPc = "done"
    /\ evalTmpl = <<"$", "{", "A", "}", "$", "A">>
    /\ evalEnv = EnvAx
    /\ evalV = <<"x", "x">>

\* The template read once from left to right, as the specification reads it:
\* a reference gives the Lookup of its WORD, any other character is literal
\* text and gives itself
RECURSIVE ExpandLiteral(_, _, _)
ExpandLiteral(v, i, env) ==
    IF i > Len(v) THEN <<>>
    ELSE IF IsRefAt(v, i)
         THEN getEnv(RefWord(v, i), env) \o ExpandLiteral(v, RefLast(v, i) + 1, env)
    ELSE <<v[i]>> \o ExpandLiteral(v, i + 1, env)

\* no value of the table holds a "$": a substituted value brings no reference
DollarFree(env) == \A i \in 1..Len(env) : IndexOf(env[i], "$") = 0

\* C11: evalEnvString leaves all text that is not a reference untouched: a
\* template without "$" is returned unchanged, and with a table whose values
\* hold no "$" the result is the template with each reference replaced by its
\* value, every other character (a "$" that starts no reference included)
\* in place and in order.
C11_NonReferenceTextUntouched ==
    evalPc = "done" =>
        /\ IndexOf(evalTmpl, "$") = 0 => evalV = evalTmpl
        /\ DollarFree(evalEnv) => evalV = ExpandLiteral(evalTmpl, 1, evalEnv)

----------------------------------------------------------------------------
(* The navigator of src/app.go: GoTo, GoBack, GoForward, ReloadEntry,      *)
(* loadEntry, ReloadBase, afterLogin, Prepare, Login, Logout, and the      *)
(* element operations as far as they fetch the environment and record the  *)
(* recent path.  Each operator computes the App a call leaves behind from  *)
(* the App it found and from the remote call that fails first (fail), so   *)
(* that afterLogin can run GoTo as the code does.                          *)

Root == <<"/">>
PathA == <<"/", "a">>
PathB == <<"/", "b">>

\* the entries the entry service holds; those of config.LeafEntryType
EntryTree == {Root, PathA, PathB}
LeafEntries == {PathB}

\* subEntries(path) and the scene files of a leaf, as the remote side and
\* the disk hold them
SubEntriesOf(path) == IF path = Root THEN <<PathA, PathB>> ELSE <<>>
ElementsOf(path) == IF path \in LeafEntries THEN <<"main">> ELSE <<>>

\* arguments the UI passes to GoTo: entry paths, a path with a trailing
\* slash, the empty string, a relative path
GoToArgs == EntryTree \cup {<<>>, <<"/", "a", "/">>, <<"a">>}

\* setting.RecentPaths as the host returns it
RecentChoices == {<<>>, <<PathB>>}

\* the remote call of a handler that fails first.  In ReloadBase:
\* "baseUser" is getSessionUser, "baseOther" ReloadGlobals or
\* ReloadUserSetting, "baseLate" ReloadUserData or ReloadAssigned.
NavFails == {"none", "entry", "baseUser", "baseOther", "baseLate", "parents", "list"}

App == [history |-> history, historyIdx |-> historyIdx, state |-> state,
        session |-> session, cachedEnvs |-> cachedEnvs]

\* the active path; a nil state has none
PathOf(st) == IF st = Nil THEN <<>> ELSE st.Path

newState ==
    [baseLoaded |-> FALSE, Path |-> <<>>, AtLeaf |-> FALSE, Entry |-> <<>>,
     Entries |-> <<>>, Elements |-> <<>>, RecentPaths |-> <<>>]

\* what a call returns: the App, "ok" / "err" / "panic", the environment
\* fetches it issued for state.Path, whether its GetEntry succeeded
Result(a, ret, fetches, resolved) ==
    [a |-> a, ret |-> ret, fetches |-> fetches, resolved |-> resolved]

\* GetEntry(pth): getEntry refuses an empty session; otherwise it succeeds
\* for an entry the service holds, unless the request fails
GetEntryOk(a, pth, fail) == a.session /\ pth \in EntryTree /\ fail # "entry"

\* EntryEnvirons(path) as far as the navigator sees it: entryEnvirons
\* refuses an empty session before any request; otherwise every call sends
\* one request, and cachedEnvs is neither read nor written
EntryEnvironsFetches(a) == IF a.session THEN 1 ELSE 0

\* the host answers an entryEnvirons request for a path it holds, unless
\* the request fails
EntryEnvironsOk(a, path, fail) ==
    a.session /\ path \in EntryTree /\ fail # "environs"

ReloadBase(a, force, fail, recent) ==
    IF ~force /\ a.state.baseLoaded THEN [a |-> a, ok |-> TRUE]
    ELSE LET a1 == [a EXCEPT !.state.baseLoaded = FALSE]
         IN  IF ~a.session THEN [a |-> a1, ok |-> TRUE]
             ELSE IF fail = "baseUser"
                  THEN [a |-> [a1 EXCEPT !.session = FALSE], ok |-> FALSE]
             ELSE IF fail = "baseOther" THEN [a |-> a1, ok |-> FALSE]
             ELSE IF fail = "baseLate"
                  THEN [a |-> [a1 EXCEPT !.state.RecentPaths = recent], ok |-> FALSE]
             ELSE [a |-> [a1 EXCEPT !.state.baseLoaded = TRUE,
                                    !.state.RecentPaths = recent],
                   ok |-> TRUE]

loadEntry(a, entry, fail, recent) ==
    IF a.state = Nil THEN Result(a, "panic", 0, TRUE)
    ELSE
    LET rb == ReloadBase(a, FALSE, fail, recent)
        path == rb.a.state.Path
        a2 == [rb.a EXCEPT !.state.Entry = entry,
                           !.state.AtLeaf = (entry \in LeafEntries)]
        a3 == [a2 EXCEPT !.state.Entries = <<>>, !.state.Elements = <<>>]
    IN  IF ~rb.ok THEN Result(rb.a, "err", 0, TRUE)
        ELSE IF fail = "parents" THEN Result(a2, "err", 0, TRUE)
        ELSE IF a3.state.AtLeaf
             THEN IF ~EntryEnvironsOk(a3, path, IF fail = "list" THEN "environs"
                                                ELSE "none")
                  THEN Result(a3, "err", EntryEnvironsFetches(a3), TRUE)
                  ELSE Result([a3 EXCEPT !.state.Elements = ElementsOf(path)],
                              "ok", EntryEnvironsFetches(a3), TRUE)
        ELSE IF fail = "list" THEN Result(a3, "err", 0, TRUE)
        ELSE Result([a3 EXCEPT !.state.Entries = SubEntriesOf(path)], "ok", 0, TRUE)

\* a plausible slip: the forward branch is kept when a new path is appended
truncateKeepsBranch(h, idx) == h

\* if len(a.history) > a.historyIdx+1 { a.history = a.history[:a.historyIdx+1] }
truncate(h, idx) == IF Len(h) > idx + 1 THEN SubSeq(h, 1, idx + 1) ELSE h

\* a plausible slip: the index is the length
lastIdxOffByOne(h) == Len(h)

\* a.historyIdx = len(a.history) - 1
lastIdx(h) == Len(h) - 1

\* the path GoTo works with: a trailing "/" is cut off unless the path is "/"
trimSlash(pth) ==
    IF pth # Root /\ HasSuffix(pth, <<"/">>) THEN SubSeq(pth, 1, Len(pth) - 1)
    ELSE pth

GoToApp(a, arg, fail, recent) ==
    IF arg = <<>> THEN Result(a, "err", 0, FALSE)
    ELSE IF a.state = Nil THEN Result(a, "panic", 0, FALSE)
    ELSE
    LET pth == trimSlash(arg)
        h == Append(truncate(a.history, a.historyIdx), pth)
        \* a.history[a.historyIdx] is the path just appended
        a1 == [a EXCEPT !.history = h, !.historyIdx = lastIdx(h),
                        !.state.Path = pth, !.cachedEnvs = {}]
    IN  IF pth = a.state.Path THEN Result(a, "ok", 0, FALSE)
        ELSE IF ~GetEntryOk(a, pth, fail) THEN Result(a, "err", 0, FALSE)
        ELSE loadEntry(a1, pth, fail, recent)

\* a plausible slip: the index moves back and the current path stays
GoBackAppKeepsPath(a, fail, recent) ==
    LET a0 == IF a.historyIdx < 0 THEN [a EXCEPT !.historyIdx = 0] ELSE a
        i == a0.historyIdx
    IN  IF i <= 0 THEN Result(a0, "err", 0, FALSE)
        ELSE IF ~GetEntryOk(a0, a0.history[i], fail) THEN Result(a0, "err", 0, FALSE)
        ELSE loadEntry([a0 EXCEPT !.historyIdx = i - 1], a0.history[i], fail, recent)

GoBackApp(a, fail, recent) ==
    LET a0 == IF a.historyIdx < 0 THEN [a EXCEPT !.historyIdx = 0] ELSE a
        i == a0.historyIdx
    IN  IF i <= 0 THEN Result(a0, "err", 0, FALSE)
        ELSE IF i - 1 >= Len(a0.history) THEN Result(a0, "panic", 0, FALSE)
        ELSE LET pth == a0.history[i]      \* a.history[a.historyIdx-1]
             IN  IF ~GetEntryOk(a0, pth, fail) THEN Result(a0, "err", 0, FALSE)
                 ELSE IF a0.state = Nil
                      THEN Result([a0 EXCEPT !.historyIdx = i - 1], "panic", 0, TRUE)
                 ELSE loadEntry([a0 EXCEPT !.historyIdx = i - 1,
                                            !.state.Path = pth],
                                pth, fail, recent)

GoForwardApp(a, fail, recent) ==
    LET a0 == IF a.historyIdx > Len(a.history) - 1
              THEN [a EXCEPT !.historyIdx = Len(a.history) - 1] ELSE a
        i == a0.historyIdx
    IN  IF i >= Len(a0.history) - 1 THEN Result(a0, "err", 0, FALSE)
        ELSE IF i + 1 < 0 THEN Result(a0, "panic", 0, FALSE)
        ELSE LET pth == a0.history[i + 2]  \* a.history[a.historyIdx+1]
             IN  IF ~GetEntryOk(a0, pth, fail) THEN Result(a0, "err", 0, FALSE)
                 ELSE IF a0.state = Nil
                      THEN Result([a0 EXCEPT !.historyIdx = i + 1], "panic", 0, TRUE)
                 ELSE loadEntry([a0 EXCEPT !.historyIdx = i + 1,
                                            !.state.Path = pth],
                                pth, fail, recent)

ReloadEntryApp(a, fail, recent) ==
    IF a.history # <<>> /\ (a.historyIdx < 0 \/ a.historyIdx >= Len(a.history))
    THEN Result(a, "panic", 0, FALSE)
    ELSE LET pth == IF a.history # <<>> THEN a.history[a.historyIdx + 1] ELSE Root
         IN  IF ~GetEntryOk(a, pth, fail) THEN Result(a, "err", 0, FALSE)
             ELSE loadEntry(a, pth, fail, recent)

\* afterLogin: stage names the call that fails before GoTo is reached
\* ("user": getSessionUser or ensureUserDataSection, which leave the same
\* state); fail1 and fail2 are the failures inside GoTo(path) and GoTo("/")
afterLoginApp(a, stage, fail1, fail2, recent) ==
    IF ~a.session \/ stage = "user" THEN Result(a, "err", 0, FALSE)
    ELSE
    LET rb == ReloadBase([a EXCEPT !.state = newState], TRUE, stage, recent)
        path == IF rb.a.state.RecentPaths # <<>> THEN rb.a.state.RecentPaths[1]
                ELSE Root
        r1 == GoToApp(rb.a, path, fail1, recent)
        r2 == GoToApp(r1.a, Root, fail2, recent)
    IN  IF ~rb.ok THEN Result(rb.a, "err", 0, FALSE)
        ELSE IF r1.ret # "err" THEN r1
        ELSE IF r2.resolved THEN r2
        ELSE Result(r2.a, r2.ret, r1.fetches + r2.fetches, r1.resolved)

LogoutApp(a, fail) ==
    Result([a EXCEPT !.state = newState, !.session = FALSE],
           IF fail = "none" THEN "ok" ELSE "err", 0, FALSE)


ListElementsApp(a, path, fail) ==
    Result(a, IF EntryEnvironsOk(a, path, fail) THEN "ok" ELSE "err",
           EntryEnvironsFetches(a), FALSE)

LastVersionOfElementApp(a, path, fail) ==
    IF fail = "program" THEN Result(a, "err", 0, FALSE)
    ELSE Result(a, IF EntryEnvironsOk(a, path, fail) THEN "ok" ELSE "err",
                EntryEnvironsFetches(a), FALSE)

\* recent paths with path moved to the head
RECURSIVE without(_, _)
without(paths, path) ==
    IF paths = <<>> THEN <<>>
    ELSE IF Head(paths) = path THEN without(Tail(paths), path)
    ELSE <<Head(paths)>> \o without(Tail(paths), path)

\* a plausible slip: the path is put at the head and its old place is kept
addRecentPathKeepsOld(a, path) ==
    [a EXCEPT !.state.RecentPaths = <<path>> \o a.state.RecentPaths]
addRecentPath(a, path) ==
    [a EXCEPT !.state.RecentPaths = <<path>> \o without(a.state.RecentPaths, path)]

\* NewElement(path, name, prog): fail names the step that returns the error;
\* the steps up to "program" come before LastVersionOfElement is called
NewElementFails == {"environs", "sceneDir", "mkdir", "sceneName", "program",
                    "lastVersion", "recent", "none"}

NewElementApp(a, path, fail) ==
    IF ~EntryEnvironsOk(a, path, fail)
       \/ fail \in {"sceneDir", "mkdir", "sceneName", "program"}
    THEN Result(a, "err", EntryEnvironsFetches(a), FALSE)
    ELSE LET last == LastVersionOfElementApp(a, path, IF fail = "lastVersion"
                                                        THEN "environs" ELSE "none")
             n == EntryEnvironsFetches(a) + last.fetches
         IN  IF last.ret = "err" \/ fail = "recent" THEN Result(a, "err", n, FALSE)
             ELSE Result(addRecentPath(a, path), "ok", n, FALSE)

----------------------------------------------------------------------------
(* The calls the UI makes, one action per exported method *)

InitNav ==
    /\ history = <<>> /\ historyIdx = 0 /\ state = Nil /\ session = FALSE
    /\ cachedEnvs = {} /\ navCall = NoCall /\ envFetches = 0
    /\ inFlight = <<>>
    /\ IdleEnv /\ IdleEval /\ IdleScene /\ IdleList

\* the failures a handler can meet: ReloadBase(false) returns at once when
\* the base is loaded, and getEntry sends nothing without a session
LoadFails == {"none", "entry", "parents", "list"}
FailsOf(a) ==
    IF ~a.session THEN {"none"}
    ELSE IF a.state # Nil /\ a.state.baseLoaded THEN LoadFails
    ELSE NavFails
RecentOf(a) ==
    IF a.session /\ a.state # Nil /\ ~a.state.baseLoaded THEN RecentChoices
    ELSE {<<>>}

NavOps == {"GoTo", "GoBack", "GoForward"}

\* the entries a resolved GoTo removed from the end of the history
cutBy(a, r) ==
    IF r.resolved /\ Len(a.history) > a.historyIdx + 1
    THEN Len(a.history) - (a.historyIdx + 1) ELSE 0

\* the App a call leaves behind becomes the state; reload is TRUE for a
\* forced reload of the active path.  envFetches counts the environment
\* fetches since the active path was last assigned or reloaded.
Return(op, arg, r, reload) ==
    /\ Len(r.a.history) <= MaxHist
    /\ history' = r.a.history
    /\ historyIdx' = r.a.historyIdx
    /\ state' = r.a.state
    /\ session' = r.a.session
    /\ cachedEnvs' = r.a.cachedEnvs
    /\ navCall' = [op |-> op, arg |-> IF r.resolved THEN arg ELSE <<>>,
                   ret |-> IF op \in NavOps THEN r.ret ELSE "ok",
                   resolved |-> (op \in NavOps /\ r.resolved),
                   cut |-> IF op = "GoTo" THEN cutBy(App, r) ELSE 0]
    /\ envFetches' = IF reload \/ r.resolved \/ PathOf(r.a.state) # PathOf(state)
                     THEN r.fetches
                     ELSE envFetches + r.fetches
    /\ envFetches' <= MaxFetches
    /\ UNCHANGED <<inFlight, envVars, evalVars, sceneVars, listVars>>

\* the steps of afterLogin before GoTo, and what fails inside its GoTo calls
AfterLoginStages == {"user", "baseUser", "baseOther", "baseLate", "none"}
GoToFailsOf(stage) == IF stage = "none" THEN LoadFails ELSE {"none"}
RetryFailsOf(fail1) == IF fail1 = "none" THEN {"none"} ELSE LoadFails
RecentAt(stage) == IF stage \in {"none", "baseLate"} THEN RecentChoices ELSE {<<>>}

\* window.onload: Prepare reads the session file and runs afterLogin
Prepare ==
    /\ navCall.op = "none"
    /\ \E stage \in {"read"} \cup AfterLoginStages, hasSession \in BOOLEAN :
       \E fail1 \in GoToFailsOf(stage), recent \in RecentAt(stage) :
       \E fail2 \in RetryFailsOf(fail1) :
          Return("Prepare", <<>>,
                 IF stage = "read" THEN Result(App, "err", 0, FALSE)
                 ELSE afterLoginApp([App EXCEPT !.session = hasSession],
                                    stage, fail1, fail2, recent),
                 FALSE)

\* Login: "wait" is a failure of OpenLoginPage or WaitLogin, "write" one of
\* writeSession after the session was received
Login ==
    /\ navCall.op # "none"
    /\ \E stage \in {"wait", "write"} \cup AfterLoginStages :
       \E fail1 \in GoToFailsOf(stage), recent \in RecentAt(stage) :
       \E fail2 \in RetryFailsOf(fail1) :
          Return("Login", <<>>,
                 IF stage = "wait" THEN Result(App, "err", 0, FALSE)
                 ELSE IF stage = "write"
                      THEN Result([App EXCEPT !.session = TRUE], "err", 0, FALSE)
                 ELSE afterLoginApp([App EXCEPT !.session = TRUE],
                                    stage, fail1, fail2, recent),
                 FALSE)

Logout ==
    /\ navCall.op # "none"
    /\ \E fail \in {"none", "remove"} :
          Return("Logout", <<>>, LogoutApp(App, fail), FALSE)

GoTo ==
    /\ navCall.op # "none"
    /\ \E arg \in GoToArgs :
       \E fail \in (IF trimSlash(arg) \in EntryTree THEN FailsOf(App) ELSE {"none"}),
          recent \in RecentOf(App) :
          Return("GoTo", trimSlash(arg), GoToApp(App, arg, fail, recent), FALSE)

GoBack ==
    /\ navCall.op # "none"
    /\ \E fail \in FailsOf(App), recent \in RecentOf(App) :
          Return("GoBack", <<>>, GoBackApp(App, fail, recent), FALSE)

GoForward ==
    /\ navCall.op # "none"
    /\ \E fail \in FailsOf(App), recent \in RecentOf(App) :
          Return("GoForward", <<>>, GoForwardApp(App, fail, recent), FALSE)

ReloadEntry ==
    /\ navCall.op # "none"
    /\ \E fail \in FailsOf(App), recent \in RecentOf(App) :
          Return("ReloadEntry", <<>>, ReloadEntryApp(App, fail, recent), TRUE)

\* the element operations; the UI offers them for the active path (app.Path)
\* when it is a leaf
ListElements ==
    /\ state # Nil /\ state.AtLeaf
    /\ \E fail \in {"none", "environs"} :
          Return("ListElements", <<>>, ListElementsApp(App, state.Path, fail), FALSE)

LastVersionOfElement ==
    /\ state # Nil /\ state.AtLeaf
    /\ \E fail \in {"none", "program", "environs"} :
          Return("LastVersionOfElement", <<>>,
                 LastVersionOfElementApp(App, state.Path, fail), FALSE)

NewElement ==
    /\ state # Nil /\ state.AtLeaf
    /\ \E fail \in NewElementFails :
          Return("NewElement", <<>>,
                 NewElementApp(App, state.Path, fail), FALSE)

Next ==
    \/ Prepare
    \/ Login
    \/ Logout
    \/ GoTo
    \/ GoBack
    \/ GoForward
    \/ ReloadEntry
    \/ ListElements
    \/ LastVersionOfElement
    \/ NewElement

Spec == InitNav /\ [][Next]_vars

----------------------------------------------------------------------------
(* Claims about the navigator *)

\* the call that made this step, read from the record it leaves
Called(op) == navCall'.op = op

\* h[0..i]: the entries of h up to index i (0-based), all of h when it is
\* shorter
UpTo(h, i) == SubSeq(h, 1, IF i + 1 < Len(h) THEN i + 1 ELSE Len(h))

\* C1: a GoTo(p) whose normalized p differs from the current path and whose
\* entry resolves leaves history = h[0..i] followed by p, the index at the
\* last position and the current path p; a GoForward issued right after it
\* changes neither history, index nor current path.
C1_GoToTruncatesAndAppends ==
    [][ /\ (Called("GoTo") /\ navCall'.resolved) =>
              /\ history' = UpTo(history, historyIdx) \o <<navCall'.arg>>
              /\ historyIdx' = Len(history') - 1
              /\ PathOf(state') = navCall'.arg
        /\ (navCall.op = "GoTo" /\ navCall.resolved /\ Called("GoForward")) =>
              /\ history' = history
              /\ historyIdx' = historyIdx
              /\ PathOf(state') = PathOf(state)
      ]_vars

\* from "/", GoTo(/a), GoTo(/b), GoBack, then a GoTo to a third path (here
\* "/" again): the forward entry /b was cut off
C1_Witness ==
    /\ navCall.op = "GoTo" /\ navCall.resolved /\ navCall.ret = "ok"
    /\ navCall.arg = Root /\ navCall.cut = 1
    /\ history = <<Root, PathA, Root>> /\ historyIdx = 2
    /\ state.Path = Root

\* C2: after any sequence of GoTo, GoBack, GoForward, ReloadEntry, Logout
\* and Login calls, each of which may fail at any remote call, a non-empty
\* history has 0 <= historyIdx <= len(history)-1.
C2_IndexWithinHistory ==
    history # <<>> => (0 <= historyIdx /\ historyIdx <= Len(history) - 1)

\* a failed GoForward at the end of a three-entry history, after a logout
C2_Witness ==
    /\ navCall.op = "GoForward" /\ navCall.ret = "err"
    /\ Len(history) = MaxHist /\ historyIdx = Len(history) - 1
    /\ ~session

\* C3: whenever GoTo, GoBack or GoForward returns an error, whether the
\* entry fetch or the loading of the entry failed, history, historyIdx, the
\* current path and the cached environment are what they were before.
C3_ErrorLeavesNavigatorUnchanged ==
    [][ (navCall'.op \in NavOps /\ navCall'.ret = "err") =>
            /\ history' = history
            /\ historyIdx' = historyIdx
            /\ PathOf(state') = PathOf(state)
            /\ cachedEnvs' = cachedEnvs
      ]_vars

\* C5: between two changes of the active path (or forced reloads) all
\* EntryEnvirons calls for the path issue at most one remote fetch.
C5_OneFetchPerActivePath == envFetches <= 1

----------------------------------------------------------------------------
(* The navigator of src/unnamed/part_004, the variant whose EntryEnvirons  *)
(* keeps a per-path cache: GoTo empties cachedEnvs, GoBack and GoForward   *)
(* only move the index, ReloadEntry resolves the active path and its       *)
(* directory.  A cache entry is <<path, stale>>: stale is history, set     *)
(* when a GoTo, GoBack or GoForward changes the active path after the      *)
(* entry was fetched.                                                      *)

\* the entries whose type has a template in config.Dir
DirEntries == LeafEntries

CacheFails == {"none", "base", "entry", "parents", "list", "dir"}

\* arguments of GoTo in this variant: the root, the leaf, the leaf with one
\* and with two trailing slashes, the empty string, a relative path
GoToArgsCached ==
    {Root, PathB, <<>>, <<"/", "b", "/">>, <<"/", "b", "/", "/">>, <<"b">>}

NoCallCached == [op |-> "none", arg |-> <<>>, ret |-> "ok", served |-> "none"]

ResultCached(a, ret, fetches, served) ==
    [a |-> a, ret |-> ret, fetches |-> fetches, served |-> served]

\* every entry of the cache was fetched before the navigation to newPath
markStale(a, newPath) ==
    IF a.state # Nil /\ newPath # a.state.Path
    THEN [a EXCEPT !.cachedEnvs = {<<c[1], TRUE>> : c \in a.cachedEnvs}]
    ELSE a

\* EntryEnvirons(path): the cached table if there is one, else one fetch
\* whose result is stored
EntryEnvironsCached(a, path, fails) ==
    IF \E c \in a.cachedEnvs : c[1] = path
    THEN ResultCached(a, "ok", 0,
                      IF <<path, TRUE>> \in a.cachedEnvs THEN "stale" ELSE "cached")
    ELSE IF ~a.session THEN ResultCached(a, "err", 0, "none")
    ELSE IF fails THEN ResultCached(a, "err", 1, "none")
    ELSE ResultCached([a EXCEPT !.cachedEnvs = a.cachedEnvs \cup {<<path, FALSE>>}],
                      "ok", 1, "fetched")

ReloadBaseCached(a, force, fail, recent) ==
    IF ~force /\ a.state.baseLoaded THEN [a |-> a, ok |-> TRUE]
    ELSE LET a1 == [a EXCEPT !.state.baseLoaded = FALSE]
         IN  IF ~a.session THEN [a |-> a1, ok |-> TRUE]
             ELSE IF fail = "base" THEN [a |-> a1, ok |-> FALSE]
             ELSE [a |-> [a1 EXCEPT !.state.baseLoaded = TRUE,
                                    !.state.RecentPaths = recent],
                   ok |-> TRUE]

\* Dir(path), the last step of ReloadEntry; r is what ReloadEntry did so far
DirCached(r, path, fail) ==
    IF fail = "dir" THEN ResultCached(r.a, "err", r.fetches, r.served)
    ELSE IF path \notin DirEntries THEN r
    ELSE LET ee == EntryEnvironsCached(r.a, path, FALSE)
         IN  ResultCached(ee.a, ee.ret, r.fetches + ee.fetches,
                          IF r.served = "none" THEN ee.served ELSE r.served)

ReloadEntryCachedApp(a, fail, recent) ==
    IF a.state = Nil THEN ResultCached(a, "panic", 0, "none")
    ELSE
    LET rb == ReloadBaseCached(a, FALSE, fail, recent)
        path == rb.a.state.Path
        a2 == [rb.a EXCEPT !.state.Entry = path,
                           !.state.AtLeaf = (path \in LeafEntries)]
        a3 == [a2 EXCEPT !.state.Entries = <<>>, !.state.Elements = <<>>]
        ee == EntryEnvironsCached(a3, path, fail = "list")
    IN  IF ~rb.ok THEN ResultCached(rb.a, "err", 0, "none")
        ELSE IF ~GetEntryOk(rb.a, path, fail)
             THEN ResultCached([rb.a EXCEPT !.state.Entry = <<>>], "err", 0, "none")
        ELSE IF fail = "parents" THEN ResultCached(a2, "err", 0, "none")
        ELSE IF a3.state.AtLeaf
             THEN IF ee.ret = "err" THEN ee
                  ELSE DirCached([ee EXCEPT !.a.state.Elements = ElementsOf(path)],
                                 path, fail)
        ELSE IF fail = "list" THEN ResultCached(a3, "err", 0, "none")
        ELSE DirCached(ResultCached([a3 EXCEPT !.state.Entries = SubEntriesOf(path)],
                                    "ok", 0, "none"),
                       path, fail)

\* if !path.IsAbs(pth) { pth = a.state.Path + "/" + pth }
absPath(cur, pth) == IF HasPrefix(pth, <<"/">>) THEN pth ELSE cur \o <<"/">> \o pth

GoToCachedApp(a, arg, fail, recent) ==
    IF arg = <<>> THEN ResultCached(a, "err", 0, "none")
    ELSE IF a.state = Nil THEN ResultCached(a, "panic", 0, "none")
    ELSE
    LET pth == trimSlash(absPath(a.state.Path, arg))
        h == Append(truncate(a.history, a.historyIdx), pth)
        a1 == [a EXCEPT !.history = h, !.historyIdx = lastIdx(h),
                        !.state.Path = pth, !.cachedEnvs = {}]
    IN  IF pth = a.state.Path THEN ResultCached(a, "ok", 0, "none")
        ELSE ReloadEntryCachedApp(a1, fail, recent)

\* the index GoBack and GoForward move to
backIdx(i) == IF i # 0 THEN i - 1 ELSE i
forwardIdx(i, h) == IF i # Len(h) - 1 THEN i + 1 ELSE i

MoveCachedApp(a, i, fail, recent) ==
    IF i < 0 \/ i >= Len(a.history)
    THEN ResultCached([a EXCEPT !.historyIdx = i], "panic", 0, "none")
    ELSE IF a.state = Nil
         THEN ResultCached([a EXCEPT !.historyIdx = i], "panic", 0, "none")
    ELSE LET pth == a.history[i + 1]
             a1 == markStale(a, pth)
         IN  ReloadEntryCachedApp([a1 EXCEPT !.historyIdx = i, !.state.Path = pth],
                                  fail, recent)

GoBackCachedApp(a, fail, recent) ==
    MoveCachedApp(a, backIdx(a.historyIdx), fail, recent)

GoForwardCachedApp(a, fail, recent) ==
    MoveCachedApp(a, forwardIdx(a.historyIdx, a.history), fail, recent)

afterLoginCachedApp(a, stage, fail, recent) ==
    LET rb == ReloadBaseCached([a EXCEPT !.state = newState], TRUE, stage, recent)
        path == IF rb.a.state.RecentPaths # <<>> THEN rb.a.state.RecentPaths[1]
                ELSE Root
    IN  IF ~rb.ok THEN ResultCached(rb.a, "err", 0, "none")
        ELSE GoToCachedApp(rb.a, path, fail, recent)

InitCache ==
    /\ history = <<>> /\ historyIdx = 0 /\ state = Nil /\ session = FALSE
    /\ cachedEnvs = {} /\ navCall = NoCallCached /\ envFetches = 0
    /\ inFlight = <<>>
    /\ IdleEnv /\ IdleEval /\ IdleScene /\ IdleList

ReturnCached(op, arg, r) ==
    /\ Len(r.a.history) <= MaxHist
    /\ r.a.historyIdx <= MaxHist
    /\ history' = r.a.history
    /\ historyIdx' = r.a.historyIdx
    /\ state' = r.a.state
    /\ session' = r.a.session
    /\ cachedEnvs' = r.a.cachedEnvs
    /\ navCall' = [op |-> op, arg |-> arg, ret |-> r.ret, served |-> r.served]
    /\ envFetches' = IF PathOf(r.a.state) # PathOf(state) THEN r.fetches
                     ELSE envFetches + r.fetches
    /\ envFetches' <= MaxFetches
    /\ UNCHANGED <<inFlight, envVars, evalVars, sceneVars, listVars>>

CacheFailsOf(a) ==
    IF ~a.session THEN {"none"}
    ELSE IF a.state # Nil /\ a.state.baseLoaded THEN CacheFails \ {"base"}
    ELSE CacheFails

PrepareCached ==
    /\ navCall.op = "none"
    /\ \E stage \in {"read", "base", "none"}, hasSession \in BOOLEAN :
       \E fail \in (IF stage = "none" THEN CacheFails \ {"base"} ELSE {"none"}),
          recent \in RecentAt(stage) :
          ReturnCached("Prepare", <<>>,
                       IF stage = "read" THEN ResultCached(App, "err", 0, "none")
                       ELSE afterLoginCachedApp([App EXCEPT !.session = hasSession],
                                                stage, fail, recent))

LoginCached ==
    /\ navCall.op # "none"
    /\ \E stage \in {"wait", "write", "base", "none"} :
       \E fail \in (IF stage = "none" THEN CacheFails \ {"base"} ELSE {"none"}),
          recent \in RecentAt(stage) :
          ReturnCached("Login", <<>>,
                       IF stage = "wait" THEN ResultCached(App, "err", 0, "none")
                       ELSE IF stage = "write"
                            THEN ResultCached([App EXCEPT !.session = TRUE],
                                              "err", 0, "none")
                       ELSE afterLoginCachedApp([App EXCEPT !.session = TRUE],
                                                stage, fail, recent))

LogoutCached ==
    /\ navCall.op # "none"
    /\ \E fail \in {"none", "remove"} :
          ReturnCached("Logout", <<>>,
                       ResultCached([App EXCEPT !.state = newState, !.session = FALSE],
                                    IF fail = "none" THEN "ok" ELSE "err", 0, "none"))

GoToCached ==
    /\ navCall.op # "none"
    /\ \E arg \in GoToArgsCached, fail \in CacheFailsOf(App), recent \in RecentOf(App) :
          ReturnCached("GoTo", arg, GoToCachedApp(App, arg, fail, recent))

GoBackCached ==
    /\ navCall.op # "none"
    /\ \E fail \in CacheFailsOf(App), recent \in RecentOf(App) :
          ReturnCached("GoBack", <<>>, GoBackCachedApp(App, fail, recent))

GoForwardCached ==
    /\ navCall.op # "none"
    /\ \E fail \in CacheFailsOf(App), recent \in RecentOf(App) :
          ReturnCached("GoForward", <<>>, GoForwardCachedApp(App, fail, recent))

ReloadEntryCached ==
    /\ navCall.op # "none"
    /\ \E fail \in CacheFailsOf(App), recent \in RecentOf(App) :
          ReturnCached("ReloadEntry", <<>>, ReloadEntryCachedApp(App, fail, recent))

\* ListElements for the active leaf, as the UI calls it
ListElementsCached ==
    /\ state # Nil /\ state.AtLeaf
    /\ \E fails \in BOOLEAN :
          ReturnCached("ListElements", <<>>,
                       EntryEnvironsCached(App, state.Path, fails))

NextCache ==
    \/ PrepareCached
    \/ LoginCached
    \/ LogoutCached
    \/ GoToCached
    \/ GoBackCached
    \/ GoForwardCached
    \/ ReloadEntryCached
    \/ ListElementsCached

SpecCache == InitCache /\ [][NextCache]_vars

\* C4: after a GoTo, GoBack or GoForward that changes the active path, the
\* environment cache is emptied before the new path is resolved, so no
\* EntryEnvirons call returns entry values fetched before that navigation.
C4_NoEnvironsFromBeforeNavigation == navCall.served # "stale"

----------------------------------------------------------------------------
(* Scene files: src/app.go NewElement, ListElements, LastVersionOfElement, *)
(* OpenScene.  The helpers first: strconv, evalEnvString as a function,    *)
(* and the regular expressions the scene names compile to.                 *)

DigitSeq == <<"0", "1", "2", "3", "4", "5", "6", "7", "8", "9">>
digitVal(c) == (CHOOSE i \in 1..10 : DigitSeq[i] = c) - 1
AllDigits(s) == \A i \in 1..Len(s) : s[i] \in Digits
AllWord(s) == \A i \in 1..Len(s) : s[i] \in WordChars

RECURSIVE digitsVal(_)
digitsVal(s) ==
    IF s = <<>> THEN 0
    ELSE digitsVal(SubSeq(s, 1, Len(s) - 1)) * 10 + digitVal(s[Len(s)])

\* strconv.Atoi: an optional sign and one or more digits; a syntax error
\* comes with the number 0
Atoi(s) ==
    LET body == IF s # <<>> /\ s[1] \in {"+", "-"} THEN Tail(s) ELSE s
    IN  IF body = <<>> \/ ~AllDigits(body) THEN [n |-> 0, err |-> TRUE]
        ELSE [n |-> IF s[1] = "-" THEN 0 - digitsVal(body) ELSE digitsVal(body),
              err |-> FALSE]

\* strconv.Itoa
RECURSIVE natStr(_)
natStr(n) ==
    IF n < 10 THEN <<DigitSeq[n + 1]>>
    ELSE natStr(n \div 10) \o <<DigitSeq[(n % 10) + 1]>>
Itoa(n) == IF n < 0 THEN <<"-">> \o natStr(0 - n) ELSE natStr(n)

\* strings.Repeat("0", z)
Zeros(z) == [i \in 1..z |-> "0"]

\* the element of a one-element set: {F(x) : x \in {e}} holds F of the value
\* of e, computed once
TheOne(S) == CHOOSE r \in S : TRUE

\* evalEnvString(v, env), the whole loop (its single iterations are
\* EvalIter above); the tables used below hold no reference cycle
RECURSIVE evalEnvString(_, _)
evalEnvString(v, env) ==
    TheOne({IF a = <<>> /\ b = <<>> THEN v
            ELSE evalEnvString(replaceMatch(v, chooseIdxs(a, b), env), env) :
               a \in {reAFind(v)}, b \in {reBFind(v)}})

\* The text of a capture group is kept as one element of the string: it
\* holds no "$" and starts and ends outside \w, so evalEnvString passes over
\* it as over any other character that is neither "$" nor a word character.
VerGroup == "(?P<VER>[vV]\\d+)"
ElemGroup == "(?P<ELEM>\\w+)"
ExtGroup == "(?P<EXT>\\w+)"
ExtraGroup == "(?P<EXTRA>\\w*)"
LitDot == "[.]"

Groups == {VerGroup, ElemGroup, ExtGroup, ExtraGroup}
groupName(tok) ==
    CASE tok = VerGroup -> "VER" [] tok = ElemGroup -> "ELEM"
      [] tok = ExtGroup -> "EXT" [] tok = ExtraGroup -> "EXTRA"

\* the strings a group's expression matches
groupMatches(tok, t) ==
    CASE tok = VerGroup -> Len(t) >= 2 /\ t[1] \in {"v", "V"} /\ AllDigits(Tail(t))
      [] tok = ExtraGroup -> AllWord(t)
      [] OTHER -> Len(t) >= 1 /\ AllWord(t)

NoMatch == [ok |-> FALSE, ELEM |-> <<>>, VER |-> <<>>, EXT |-> <<>>, EXTRA |-> <<>>]

\* regexp matching of pat[pi..] against s[si..] up to the end of s ("$"),
\* leftmost-first: every group takes the longest text that lets the rest
\* match.  "." matches any character, any other character itself.
RECURSIVE matchAt(_, _, _, _)
matchAt(pat, pi, s, si) ==
    IF pi > Len(pat) THEN [NoMatch EXCEPT !.ok = (si > Len(s))]
    ELSE IF pat[pi] \in Groups
         THEN TheOne({IF rests = {} THEN NoMatch
                      ELSE TheOne({[r[2] EXCEPT ![groupName(pat[pi])] =
                                                   SubSeq(s, si, si + r[1] - 1)] :
                                      r \in {q \in rests : \A p \in rests : p[1] <= q[1]}}) :
                         rests \in {{q \in {<<n, matchAt(pat, pi + 1, s, si + n)>> :
                                              n \in {m \in 0..(Len(s) - si + 1) :
                                                       groupMatches(pat[pi],
                                                             SubSeq(s, si, si + m - 1))}} :
                                       q[2].ok}}})
    ELSE IF si > Len(s) THEN NoMatch
    ELSE IF \/ pat[pi] = "."
            \/ pat[pi] = LitDot /\ s[si] = "."
            \/ pat[pi] \notin {".", LitDot} /\ pat[pi] = s[si]
         THEN matchAt(pat, pi + 1, s, si + 1)
    ELSE NoMatch

\* reName.FindStringSubmatchIndex(name) for reName = "^" + pat + "$",
\* together with the four ExpandString calls: the text of each named group,
\* "" for a group the expression lacks and for all of them without a match
FindStringSubmatch(pat, name) == matchAt(pat, 1, name, 1)


\* the names of the variables the scene operations read and set
KeySceneDir == <<"S", "C", "E", "N", "E", "_", "D", "I", "R">>
KeySceneName == <<"S", "C", "E", "N", "E", "_", "N", "A", "M", "E">>
KeyMainSceneName == <<"M", "A", "I", "N", "_", "S", "C", "E", "N", "E", "_", "N", "A", "M", "E">>
KeySceneNameQuery == <<"S", "C", "E", "N", "E", "_", "N", "A", "M", "E", "_", "Q", "U", "E", "R", "Y">>
KeyNewVer == <<"N", "E", "W", "_", "V", "E", "R">>
KeyElem == <<"E", "L", "E", "M">>
KeyVer == <<"V", "E", "R">>
KeyExt == <<"E", "X", "T">>
KeyScene == <<"S", "C", "E", "N", "E">>
KeyForgeSession == <<"F", "O", "R", "G", "E", "_", "S", "E", "S", "S", "I", "O", "N">>

\* byte order of the characters, for strings.Compare
CharOrder ==
    <<"-", ".", "/", "0", "1", "2", "3", "4", "5", "6", "7", "8", "9",
      "A", "B", "C", "D", "E", "F", "G", "H", "I", "J", "K", "L", "M", "N", "O",
      "P", "Q", "R", "S", "T", "U", "V", "W", "X", "Y", "Z", "_",
      "a", "b", "c", "d", "e", "f", "g", "h", "i", "j", "k", "l", "m", "n", "o",
      "p", "q", "r", "s", "t", "u", "v", "w", "x", "y", "z">>
charCode(c) == CHOOSE i \in 1..Len(CharOrder) : CharOrder[i] = c

\* strings.Compare(x, y): -1, 0 or 1
RECURSIVE Compare(_, _)
Compare(x, y) ==
    IF x = <<>> /\ y = <<>> THEN 0
    ELSE IF x = <<>> THEN 0 - 1
    ELSE IF y = <<>> THEN 1
    ELSE IF charCode(x[1]) < charCode(y[1]) THEN 0 - 1
    ELSE IF charCode(x[1]) > charCode(y[1]) THEN 1
    ELSE Compare(Tail(x), Tail(y))

\* the orders a sort.Slice call can leave the members of S in: every member
\* once, no member before one that less puts before it (sort.Slice is not
\* stable, so members that less does not order may come out either way)
Perms(S) ==
    {q \in [1..Cardinality(S) -> S] :
        \A i, j \in 1..Cardinality(S) : i # j => q[i] # q[j]}

\* env = append(env, key+"="+val)
appendEnv(env, key, val) == Append(env, key \o <<"=">> \o val)

\* the table a.EntryEnvirons(path) returns for the leaf
EntryEnvironsOf(cfg) == EntryEnvironsTable(cfg.Environ, cfg.Forge, cfg.Envs, <<>>)

\* a.Program(prog): a.program[prog], filled by NewApp from config.Programs
\* (a later program of the same name replaces an earlier one)
Program(cfg, prog) ==
    LET at == {i \in 1..Len(cfg.Programs) : cfg.Programs[i].Name = prog}
    IN  IF at = {} THEN Nil ELSE cfg.Programs[MaxOf(at)]

\* programOf[ext] in ListElements: the last program of config.Programs with
\* that extension
programOf(cfg, ext) ==
    LET at == {i \in 1..Len(cfg.Programs) : cfg.Programs[i].Ext = ext}
    IN  IF at = {} THEN Nil ELSE cfg.Programs[MaxOf(at)]

\* os.ReadDir(dir): the entries of dir; os.Stat(dir + "/" + name)
dirExists(dsk, dir) == dir \in dsk.dirs
readDir(dsk, dir) == {f \in dsk.files : f.dir = dir}
statExists(dsk, dir, name) ==
    \/ \E f \in dsk.files : f.dir = dir /\ f.name = name
    \/ name = <<>> /\ dirExists(dsk, dir)

\* a plausible slip: the prefix is not stripped before the number is parsed
versionNumKeepsPrefix(ver) ==
    IF Atoi(ver).err THEN 0 - 1 ELSE Atoi(ver).n

\* Version.Num of a version token: strip a leading "v", parse, -1 on error
versionNum(ver) ==
    TheOne({IF num.err THEN 0 - 1 ELSE num.n :
               num \in {Atoi(IF HasPrefix(ver, <<"v">>) THEN Tail(ver) ELSE ver)}})

\* a plausible slip: the shorter token first among equal numbers
versionLessShorterFirst(x, y) ==
    IF x.Num # y.Num THEN x.Num > y.Num ELSE Len(x.Name) < Len(y.Name)

\* the less function both sorts of versions use
versionLess(x, y) ==
    LET cmp == x.Num - y.Num
    IN  IF cmp # 0 THEN cmp > 0 ELSE Len(x.Name) > Len(y.Name)

sortedVersions(S) ==
    {q \in Perms(S) :
        \A i, j \in 1..Len(q) : i < j => ~versionLess(q[j], q[i])}

\* the loop over the files of sceneDir: every entry that is not a directory,
\* with the match of its name
scanDir(dsk, sceneDir, sceneName) ==
    {[name |-> f.name, m |-> FindStringSubmatch(sceneName, f.name)] :
        f \in {g \in readDir(dsk, sceneDir) : ~g.isDir}}

\* vers of LastVersionOfElement, one Version per matching file (Scene only
\* tells them apart)
matchedVersions(scan) ==
    {[Name |-> x.m.VER, Num |-> versionNum(x.m.VER), Scene |-> x.name] :
        x \in {y \in scan : y.m.ok}}

\* LastVersionOfElement from os.ReadDir(sceneDir) on
lastVersionIn(dsk, sceneDir, sceneName) ==
    IF ~dirExists(dsk, sceneDir)
    THEN [err |-> "not found scene directory", names |-> {}]
    ELSE TheOne({IF vers = {} THEN [err |-> "ElemNotExistError", names |-> {}]
                 ELSE [err |-> "none",
                       names |-> {q[1].Name : q \in sortedVersions(vers)}] :
                    vers \in {matchedVersions(scanDir(dsk, sceneDir, sceneName))}})

\* LastVersionOfElement with the program and the environment of the entry
lastVersionOf(dsk, elem, pg, env0, sceneDir0, sceneName0) ==
    IF pg = Nil THEN [err |-> "unknown program", names |-> {}]
    ELSE IF sceneDir0 = <<>> THEN [err |-> "no scene directory", names |-> {}]
    ELSE IF sceneName0 = <<>> THEN [err |-> "no scene name", names |-> {}]
    ELSE TheOne({lastVersionIn(dsk, sceneDir, sceneName) :
                    sceneDir \in {evalEnvString(sceneDir0, env0)},
                    sceneName \in {evalEnvString(sceneName0,
                                      appendEnv(appendEnv(appendEnv(env0, KeyElem, elem),
                                                          KeyVer, <<VerGroup>>),
                                                KeyExt, pg.Ext))}})

\* LastVersionOfElement(path, elem, prog): err names the error returned,
\* names the version tokens the call can return when it returns none
LastVersionOfElementScene(cfg, dsk, elem, prog) ==
    TheOne({TheOne({lastVersionOf(dsk, elem, pg, env0, sceneDir0, sceneName0) :
                       sceneDir0 \in {getEnv(KeySceneDir, env0)},
                       sceneName0 \in {getEnv(IF elem = <<>> THEN KeyMainSceneName
                                              ELSE KeySceneName, env0)}}) :
               pg \in {Program(cfg, prog)}, env0 \in {EntryEnvironsOf(cfg)}})

\* ListElements(path): the scanned files that give a Version
listedFiles(cfg, scan) ==
    {x \in scan : x.m.EXTRA = <<>> /\ programOf(cfg, x.m.EXT) # Nil}

\* a plausible slip: the Elem is keyed by the element name alone
elemKeyNameOnly(cfg, x) == <<x.m.ELEM, <<>>>>
\* the key el + "/" + p.Name of the Elem a file goes to, and its Version
elemKey(cfg, x) == <<x.m.ELEM, programOf(cfg, x.m.EXT).Name>>
fileVersion(sceneDir, x) ==
    [Name |-> x.m.VER, Num |-> versionNum(x.m.VER),
     Scene |-> sceneDir \o <<"/">> \o x.name]

\* the less function of the sort of elems: by Name, then by Program
elemLess(x, y) ==
    LET cmp == Compare(x[1], y[1])
    IN  IF cmp # 0 THEN cmp < 0 ELSE Compare(x[2], y[2]) <= 0

\* the Elems of the keys ks, in that order, with every order their sorted
\* Versions can have
RECURSIVE elemsOf(_, _, _, _)
elemsOf(cfg, sceneDir, files, ks) ==
    IF ks = <<>> THEN {<<>>}
    ELSE LET vers == {fileVersion(sceneDir, x) :
                         x \in {y \in files : elemKey(cfg, y) = ks[1]}}
         IN  {<<[Name |-> ks[1][1], Program |-> ks[1][2], Versions |-> vs]>> \o rest :
                 vs \in sortedVersions(vers),
                 rest \in elemsOf(cfg, sceneDir, files, Tail(ks))}

\* ListElements from os.ReadDir(sceneDir) on
listElementsIn(cfg, dsk, sceneDir, sceneName) ==
    IF ~dirExists(dsk, sceneDir) THEN [err |-> "none", elems |-> {<<>>}]
    ELSE TheOne({[err |-> "none",
                  elems |-> elemsOf(cfg, sceneDir, files,
                               CHOOSE q \in Perms({elemKey(cfg, x) : x \in files}) :
                                  \A i, j \in 1..Len(q) : i < j => elemLess(q[i], q[j]))] :
                    files \in {listedFiles(cfg, scanDir(dsk, sceneDir, sceneName))}})

\* err and the lists the call can return (they differ in the order of
\* versions that versionLess does not order)
ListElementsScene(cfg, dsk) ==
    TheOne({IF getEnv(KeySceneDir, env) = <<>>
            THEN [err |-> "no scene directory", elems |-> {}]
            ELSE TheOne({listElementsIn(cfg, dsk, sceneDir, sceneName) :
                            sceneDir \in {evalEnvString(getEnv(KeySceneDir, env), env)},
                            sceneName \in {evalEnvString(getEnv(KeySceneNameQuery, env),
                                                         env)}}) :
               env \in {EntryEnvironsOf(cfg)}})

\* the loop over NEW_VER, from its last character down to its first, with
\* the verPre and verDigits it leaves
RECURSIVE splitNewVer(_, _, _, _)
splitNewVer(ver, i, verPre, verDigits) ==
    IF i < 1 THEN [verPre |-> verPre, verDigits |-> verDigits]
    ELSE IF Atoi(<<ver[i]>>).err
         THEN splitNewVer(ver, i - 1, SubSeq(ver, 1, i), SubSeq(ver, i + 1, Len(ver)))
    ELSE splitNewVer(ver, i - 1, verPre, verDigits)

\* a plausible slip: the number is not padded to nDigits
renderVerUnpadded(verPre, nDigits, n) == verPre \o Itoa(n)

\* ver := verPre + strings.Repeat("0", z) + v
renderVer(verPre, nDigits, n) ==
    LET v == Itoa(n)
        z == IF nDigits - Len(v) < 0 THEN 0 ELSE nDigits - Len(v)
    IN  verPre \o Zeros(z) \o v

\* for n := start; ; n++: the first n whose scene os.Stat does not find.
\* Distinct names need at most one step per file of the disk; when the name
\* does not change with n and exists, the loop does not end (n = -1).
RECURSIVE firstFree(_, _, _, _, _, _, _, _)
firstFree(dsk, sceneDir, sceneName, env, verPre, nDigits, n, steps) ==
    TheOne({IF ~statExists(dsk, sceneDir, name)
            THEN [n |-> n, ver |-> ver, dir |-> sceneDir, name |-> name, env |-> env1]
            ELSE IF steps > Cardinality(dsk.files) + 1
                 THEN [n |-> 0 - 1, ver |-> <<>>, dir |-> sceneDir, name |-> <<>>,
                       env |-> env1]
            ELSE firstFree(dsk, sceneDir, sceneName, env1, verPre, nDigits, n + 1,
                           steps + 1) :
               ver \in {renderVer(verPre, nDigits, n)},
               env1 \in {setEnv(KeyVer, renderVer(verPre, nDigits, n), env)},
               name \in {evalEnvString(sceneName,
                                       setEnv(KeyVer, renderVer(verPre, nDigits, n), env))}})

\* createCmd / openCmd: every token expanded and trimmed, blank ones dropped
RECURSIVE expandCmd(_, _)
expandCmd(cmd, env) ==
    IF cmd = <<>> THEN <<>>
    ELSE LET c == TrimSpace(evalEnvString(cmd[1], env))
         IN  (IF c # <<>> THEN <<c>> ELSE <<>>) \o expandCmd(Tail(cmd), env)

\* os/exec: of duplicate keys in cmd.Env the last entry counts
procEnv(key, env) ==
    LET at == {i \in 1..Len(env) :
                  IndexOf(env[i], "=") # 0 /\ SplitN(env[i], "=", 2)[1] = key}
    IN  IF at = {} THEN <<>> ELSE SplitN(env[MaxOf(at)], "=", 2)[2]

\* a.session as the scene operations pass it on
SessionKey == <<"k">>

SceneResult(ret, err, ver, scene, argv, sceneEnv, dsk) ==
    [ret |-> ret, err |-> err, ver |-> ver, scene |-> scene, argv |-> argv,
     sceneEnv |-> sceneEnv, disk |-> dsk]

\* a scene operation that returns err before it selects anything
SceneFail(err, dsk) == SceneResult("err", err, <<>>, <<>>, <<>>, <<>>, dsk)

\* NewElement from cmd := exec.Command(createCmd[0], ...) on: the index
\* panics on an empty createCmd; otherwise the command runs, leaves the scene
\* file behind or not (created), and addRecentPath fails or not
newElementLaunch(dsk1, scene, free, env2, createCmd, created, recentFails) ==
    IF createCmd = <<>>
    THEN SceneResult("panic", "index out of range", free.ver, scene, <<>>, <<>>, dsk1)
    ELSE SceneResult(IF recentFails THEN "err" ELSE "ok",
                     IF recentFails THEN "recent paths" ELSE "none",
                     free.ver, scene, createCmd, procEnv(KeyScene, env2),
                     IF created
                     THEN [dsk1 EXCEPT !.files = dsk1.files \cup
                             {[dir |-> free.dir, name |-> free.name, isDir |-> FALSE]}]
                     ELSE dsk1)

\* NewElement from env = append(env, "SCENE="+scene) on
newElementCommand(dsk1, pg, scene, free, created, recentFails) ==
    TheOne({newElementLaunch(dsk1, scene, free, env2, createCmd, created, recentFails) :
               env2 \in {appendEnv(free.env, KeyScene, scene)},
               createCmd \in {expandCmd(pg.CreateCmd, appendEnv(free.env, KeyScene, scene))}})

\* NewElement after the loop over n has ended with free (or never ends)
newElementScene(dsk1, pg, free, created, recentFails) ==
    IF free.n < 0 THEN SceneResult("hang", "none", <<>>, <<>>, <<>>, <<>>, dsk1)
    ELSE newElementCommand(dsk1, pg, free.dir \o <<"/">> \o free.name, free, created,
                           recentFails)

\* NewElement from nDigits := len(verDigits) on: start is the number of
\* verDigits (0 when it is none), or one more than the last version's
newElementVersion(dsk1, pg, sceneDir, sceneName, env1, split, last, created, recentFails) ==
    IF last.name # <<>> /\ Atoi(TrimPrefix(last.name, <<"v">>)).err
    THEN SceneFail("atoi", dsk1)
    ELSE TheOne({newElementScene(dsk1, pg, free, created, recentFails) :
                    free \in {firstFree(dsk1, sceneDir, sceneName, env1, split.verPre,
                                        Len(split.verDigits),
                                        IF last.name # <<>>
                                        THEN Atoi(TrimPrefix(last.name, <<"v">>)).n + 1
                                        ELSE Atoi(split.verDigits).n,
                                        0)}})

\* verPre and verDigits: "v" and "001", overridden when NEW_VER is defined
newVerSplit(newVer) ==
    IF newVer # <<>>
    THEN splitNewVer(newVer, Len(newVer), <<"v">>, <<"0", "0", "1">>)
    ELSE [verPre |-> <<"v">>, verDigits |-> <<"0", "0", "1">>]

\* NewElement with env holding ELEM, EXT and FORGE_SESSION
newElementEnv(dsk1, pg, sceneDir, sceneName, env1, last, created, recentFails) ==
    IF last.err \notin {"none", "ElemNotExistError"} THEN SceneFail(last.err, dsk1)
    ELSE TheOne({newElementVersion(dsk1, pg, sceneDir, sceneName, env1, split, last,
                                   created, recentFails) :
                    split \in {newVerSplit(getEnv(KeyNewVer, env1))}})

\* NewElement after os.MkdirAll(sceneDir): the scene name and the program
newElementProgram(dsk1, name, pg, sceneDir, sceneName, env0, last, created, recentFails) ==
    IF sceneName = <<>> THEN SceneFail("no scene name", dsk1)
    ELSE IF pg = Nil THEN SceneFail("unknown program", dsk1)
    ELSE TheOne({newElementEnv(dsk1, pg, sceneDir, sceneName, env1, last, created,
                               recentFails) :
                    env1 \in {appendEnv(appendEnv(appendEnv(env0, KeyElem, name),
                                                  KeyExt, pg.Ext),
                                        KeyForgeSession, SessionKey)}})

\* NewElement with sceneDir expanded: os.MkdirAll creates it ("" fails)
newElementDir(dsk, name, pg, sceneDir, env0, last, created, recentFails) ==
    IF sceneDir = <<>> THEN SceneFail("mkdir", dsk)
    ELSE TheOne({newElementProgram(dsk1, name, pg, sceneDir, sceneName, env0, last,
                                   created, recentFails) :
                    dsk1 \in {[dsk EXCEPT !.dirs = dsk.dirs \cup {sceneDir}]},
                    sceneName \in {getEnv(IF name = <<>> THEN KeyMainSceneName
                                          ELSE KeySceneName, env0)}})

\* NewElement with the environment of the entry
newElementEnvirons(dsk, name, pg, env0, last, created, recentFails) ==
    IF getEnv(KeySceneDir, env0) = <<>> THEN SceneFail("no scene directory", dsk)
    ELSE TheOne({newElementDir(dsk, name, pg, sceneDir, env0, last, created,
                               recentFails) :
                    sceneDir \in {evalEnvString(getEnv(KeySceneDir, env0), env0)}})

\* NewElement(path, name, prog).  last is what its LastVersionOfElement call
\* returns, created whether the launched command leaves the scene file
\* behind, recentFails whether addRecentPath fails.
NewElementScene(cfg, dsk, name, prog, last, created, recentFails) ==
    TheOne({newElementEnvirons(dsk, name, pg, env0, last, created, recentFails) :
               pg \in {Program(cfg, prog)}, env0 \in {EntryEnvironsOf(cfg)}})

\* OpenScene from cmd := exec.Command(openCmd[0], ...) on
openSceneLaunch(dsk, ver1, scene, env2, openCmd, recentFails) ==
    IF openCmd = <<>>
    THEN SceneResult("panic", "index out of range", ver1, scene, <<>>, <<>>, dsk)
    ELSE SceneResult(IF recentFails THEN "err" ELSE "ok",
                     IF recentFails THEN "recent paths" ELSE "none",
                     ver1, scene, openCmd, procEnv(KeyScene, env2), dsk)

\* OpenScene with env holding ELEM, VER, EXT and FORGE_SESSION
openSceneEnv(dsk, pg, ver1, sceneDir, sceneName0, env1, recentFails) ==
    TheOne({TheOne({openSceneLaunch(dsk, ver1, scene, env2, openCmd, recentFails) :
                       env2 \in {appendEnv(env1, KeyScene, scene)},
                       openCmd \in {expandCmd(pg.OpenCmd, appendEnv(env1, KeyScene, scene))}}) :
               scene \in {evalEnvString(sceneDir \o <<"/">> \o evalEnvString(sceneName0, env1),
                                        env1)}})

\* OpenScene with the version, the program and the environment of the entry
openSceneOf(dsk, elem, ver1, pg, env0, sceneDir0, sceneName0, recentFails) ==
    IF pg = Nil THEN SceneFail("unknown program", dsk)
    ELSE IF sceneDir0 = <<>> THEN SceneFail("no scene directory", dsk)
    ELSE IF sceneName0 = <<>> THEN SceneFail("no scene name", dsk)
    ELSE TheOne({openSceneEnv(dsk, pg, ver1, sceneDir, sceneName0, env1, recentFails) :
                    sceneDir \in {evalEnvString(sceneDir0, env0)},
                    env1 \in {appendEnv(appendEnv(appendEnv(appendEnv(env0, KeyElem, elem),
                                                    KeyVer, ver1), KeyExt, pg.Ext),
                                        KeyForgeSession, SessionKey)}})

\* OpenScene(path, elem, ver, prog); last is what LastVersionOfElement
\* returns when ver is ""
OpenSceneScene(cfg, dsk, elem, ver, prog, last, recentFails) ==
    IF ver = <<>> /\ last.err # "none" THEN SceneFail(last.err, dsk)
    ELSE TheOne({TheOne({openSceneOf(dsk, elem, IF ver = <<>> THEN last.name ELSE ver,
                                     pg, env0, sceneDir0, sceneName0, recentFails) :
                            sceneDir0 \in {getEnv(KeySceneDir, env0)},
                            sceneName0 \in {getEnv(IF elem = <<>> THEN KeyMainSceneName
                                                   ELSE KeySceneName, env0)}}) :
                    pg \in {Program(cfg, prog)}, env0 \in {EntryEnvironsOf(cfg)}})


----------------------------------------------------------------------------
(* The site the scene operations run at: the configuration, the entry      *)
(* service's environment of the leaf /show/seq/shot01, and the disk        *)

MaxFiles == 3       \* most files the scene directory grows to

\* config.Envs: the scene directory, the scene name written with plain and
\* with braced references, the query ListElements matches with, NEW_VER
EnvSceneDir ==
    <<"S", "C", "E", "N", "E", "_", "D", "I", "R", "=", "/", "p", "r", "o",
      "j", "/", "$", "S", "H", "O", "T", "/", "w", "o", "r", "k">>
EnvSceneName ==
    <<"S", "C", "E", "N", "E", "_", "N", "A", "M", "E", "=", "$", "S", "H",
      "O", "T", "_", "$", "E", "L", "E", "M", "_", "$", "V", "E", "R", ".",
      "$", "E", "X", "T">>
EnvSceneNameBraced ==
    <<"S", "C", "E", "N", "E", "_", "N", "A", "M", "E", "=", "$", "{", "S",
      "H", "O", "T", "}", "_", "$", "{", "E", "L", "E", "M", "}", "_", "$",
      "V", "E", "R", ".", "$", "E", "X", "T">>
EnvSceneNameQuery ==
    <<"S", "C", "E", "N", "E", "_", "N", "A", "M", "E", "_", "Q", "U", "E",
      "R", "Y", "=", "$", "{", "S", "H", "O", "T", "}", "_", ElemGroup, "_",
      VerGroup, ExtraGroup, LitDot, ExtGroup>>
EnvSceneNameNoVer ==
    <<"S", "C", "E", "N", "E", "_", "N", "A", "M", "E", "=", "$", "{", "S",
      "H", "O", "T", "}", "_", "$", "{", "E", "L", "E", "M", "}", ".", "$",
      "E", "X", "T">>
EnvNewVerV01 == <<"N", "E", "W", "_", "V", "E", "R", "=", "v", "0", "1">>
EnvNewVerVer01 ==
    <<"N", "E", "W", "_", "V", "E", "R", "=", "v", "e", "r", "0", "1">>
EnvNewVerDigits == <<"N", "E", "W", "_", "V", "E", "R", "=", "0", "0", "1">>

SiteEnvs ==
    { <<EnvSceneDir, EnvSceneName, EnvSceneNameQuery>>,
      <<EnvSceneDir, EnvSceneNameBraced, EnvSceneNameQuery>>,
      <<EnvSceneDir, EnvSceneNameBraced, EnvSceneNameQuery, EnvNewVerV01>>,
      <<EnvSceneDir, EnvSceneNameBraced, EnvSceneNameQuery, EnvNewVerVer01>>,
      <<EnvSceneDir, EnvSceneNameBraced, EnvSceneNameQuery, EnvNewVerDigits>>,
      <<EnvSceneNameBraced, EnvSceneNameQuery>> }

\* the entry service's environment of the leaf
ForgeShot == <<<<"S", "H", "O", "T">>, <<"s", "h", "o", "t", "0", "1">>>>
SceneDirPath ==
    <<"/", "p", "r", "o", "j", "/", "s", "h", "o", "t", "0", "1", "/", "w",
      "o", "r", "k">>
ElemMain == <<"m", "a", "i", "n">>
ProgMaya == <<"m", "a", "y", "a">>
ProgNuke == <<"n", "u", "k", "e">>
ProgRaw == <<"r", "a", "w">>
ProgHoudini == <<"h", "o", "u", "d", "i", "n", "i">>
CmdScene == <<"$", "S", "C", "E", "N", "E">>
CmdBlank == <<" ", "$", "N", "O", "P", "E", " ">>

\* config.Programs: maya with both commands; nuke without a creation
\* command and with an open command that expands to blanks; raw, declared
\* without an extension, with a creation command that expands to blanks and
\* without an open command
MayaProgram ==
    [Name |-> ProgMaya, Ext |-> <<"m", "a">>,
     CreateCmd |-> <<ProgMaya, CmdScene>>, OpenCmd |-> <<ProgMaya, CmdScene>>]
NukeProgram ==
    [Name |-> ProgNuke, Ext |-> <<"n", "k">>,
     CreateCmd |-> <<>>, OpenCmd |-> <<CmdBlank>>]
RawProgram ==
    [Name |-> ProgRaw, Ext |-> <<>>,
     CreateCmd |-> <<CmdBlank>>, OpenCmd |-> <<>>]

\* scene files of the element main of shot01
SceneFile(ver, ext) ==
    <<"s", "h", "o", "t", "0", "1", "_">> \o ElemMain \o <<"_">> \o ver \o <<".">> \o ext
Ma(ver) == [dir |-> SceneDirPath, name |-> SceneFile(ver, <<"m", "a">>), isDir |-> FALSE]
MaDir(ver) == [dir |-> SceneDirPath, name |-> SceneFile(ver, <<"m", "a">>), isDir |-> TRUE]
Other(name) == [dir |-> SceneDirPath, name |-> name, isDir |-> FALSE]

UnversionedFile ==
    <<"s", "h", "o", "t", "0", "1", "_">> \o ElemMain \o <<".", "m", "a">>

V001 == <<"v", "0", "0", "1">>
V002 == <<"v", "0", "0", "2">>
V003 == <<"v", "0", "0", "3">>
V0010 == <<"v", "0", "0", "1", "0">>
V009 == <<"v", "0", "0", "9">>
V9 == <<"v", "9">>
V999 == <<"v", "9", "9", "9">>
UpperV002 == <<"V", "0", "0", "2">>
UpperV003 == <<"V", "0", "0", "3">>

\* what the scene directory holds at the start: nothing at all (the
\* directory is missing), no file, and the listings of the examples
MixedFiles ==
    {Ma(V001), Other(SceneFile(V002, <<"n", "k">>)),
     Other(<<"s", "h", "o", "t", "0", "1", "_", "m", "a", "i", "n", "_", "v", "0", "0", "4", "_", "w", "i", "p", ".", "m", "a">>),
     Other(<<"n", "o", "t", "e", "s", ".", "t", "x", "t">>)}
SiteFiles ==
    { {}, {Ma(V001)}, {Ma(V001), Ma(V003)}, {Ma(V001), Ma(V002), Ma(V0010)},
      {Ma(V009), Ma(V9)}, {Ma(UpperV002)}, {Ma(V001), Ma(UpperV003)},
      {Ma(UpperV002), Ma(UpperV003)}, {Ma(V999)}, {Ma(V001), MaDir(V002)},
      MixedFiles }

SiteDisks ==
    {[dirs |-> {}, files |-> {}]} \cup {[dirs |-> {SceneDirPath}, files |-> fs] : fs \in SiteFiles}

SiteEnvsDefault == <<EnvSceneDir, EnvSceneNameBraced, EnvSceneNameQuery>>
SiteConfig(envs, programs) ==
    [Environ |-> <<>>, Forge |-> <<ForgeShot>>, Envs |-> envs, Programs |-> programs]

\* the sites explored: every listing with the default environment and all
\* three programs, the mixed listing without raw, and every environment with
\* the missing directory, one version and v999
Sites ==
    {<<SiteConfig(SiteEnvsDefault, <<MayaProgram, NukeProgram, RawProgram>>), d>> :
        d \in SiteDisks}
    \cup {<<SiteConfig(SiteEnvsDefault, <<MayaProgram, NukeProgram>>),
            [dirs |-> {SceneDirPath}, files |-> MixedFiles]>>}
    \cup {<<SiteConfig(<<EnvSceneDir, EnvSceneNameNoVer, EnvSceneNameQuery>>,
                        <<MayaProgram, NukeProgram>>), d>> :
            d \in {[dirs |-> {SceneDirPath}, files |-> {}],
                   [dirs |-> {SceneDirPath}, files |-> {Other(UnversionedFile)}]}}
    \cup {<<SiteConfig(envs, <<MayaProgram, NukeProgram>>), d>> :
            envs \in SiteEnvs,
            d \in {[dirs |-> {}, files |-> {}],
                   [dirs |-> {SceneDirPath}, files |-> {Ma(V001)}],
                   [dirs |-> {SceneDirPath}, files |-> {Ma(V999)}]}}

InitScene ==
    /\ \E site \in Sites : config = site[1] /\ disk = site[2]
    /\ sceneCall = [op |-> "none"]
    /\ IdleEnv /\ IdleEval /\ IdleNav /\ IdleList

\* the arguments the UI passes: the element ("" for the main scene), the
\* version ("" for the last one) and the program (houdini is not configured)
NewArgs ==
    {<<ElemMain, ProgMaya>>, <<ElemMain, ProgNuke>>, <<ElemMain, ProgRaw>>,
     <<ElemMain, ProgHoudini>>, <<<<>>, ProgMaya>>}
OpenArgs ==
    {<<ElemMain, <<>>, ProgMaya>>, <<ElemMain, V001, ProgMaya>>,
     <<ElemMain, V001, ProgNuke>>, <<ElemMain, V001, ProgRaw>>,
     <<ElemMain, V001, ProgHoudini>>, <<<<>>, V001, ProgMaya>>}
LastArgs == {<<ElemMain, ProgMaya>>, <<ElemMain, ProgHoudini>>}

\* what a LastVersionOfElement call can return
lastOutcomes(lv) ==
    IF lv.err # "none" THEN {[err |-> lv.err, name |-> <<>>]}
    ELSE {[err |-> "none", name |-> n] : n \in lv.names}

\* the disk after os.MkdirAll(sceneDir)
afterMkdirAll(cfg, dsk) ==
    LET env == EntryEnvironsOf(cfg)
    IN  [dsk EXCEPT !.dirs = dsk.dirs \cup {evalEnvString(getEnv(KeySceneDir, env), env)}]

\* what follows the launch: the command leaves the scene file behind or
\* not, addRecentPath succeeds or fails, the command itself fails (it does
\* not start, or exits with an error) or not
LaunchOutcomes ==
    {<<TRUE, FALSE, FALSE>>, <<FALSE, FALSE, FALSE>>, <<TRUE, TRUE, FALSE>>,
     <<FALSE, FALSE, TRUE>>, <<FALSE, TRUE, TRUE>>}
NotLaunched == <<FALSE, FALSE, FALSE>>

\* a plausible slip: the error of the command is returned
processErrorReturned(r, procErr) ==
    IF procErr THEN [r EXCEPT !.ret = "err", !.err = "process"] ELSE r

\* if err != nil { fmt.Println(err) } after cmd.CombinedOutput() and
\* cmd.Start(): the error of the command is printed and the method goes on
processError(r, procErr) == r

NewElementCall ==
    \E arg \in NewArgs :
    \E last \in lastOutcomes(LastVersionOfElementScene(config,
                                afterMkdirAll(config, disk), arg[1], arg[2])) :
    \E r0 \in {NewElementScene(config, disk, arg[1], arg[2], last, FALSE, FALSE)} :
    \E o \in (IF r0.ret = "ok" THEN LaunchOutcomes ELSE {NotLaunched}) :
    \E r \in {IF o = NotLaunched THEN r0
              ELSE processError(NewElementScene(config, disk, arg[1], arg[2], last,
                                                o[1], o[2]), o[3])} :
       /\ Cardinality(r.disk.files) <= MaxFiles \/ r.disk.files = disk.files
       /\ disk' = r.disk
       /\ sceneCall' = [op |-> "NewElement", elem |-> arg[1], prog |-> arg[2],
                        last |-> last, ret |-> r.ret, err |-> r.err,
                        ver |-> r.ver, scene |-> r.scene, argv |-> r.argv,
                        sceneEnv |-> r.sceneEnv, pre |-> disk,
                        recentFails |-> o[2], procErr |-> o[3]]
       /\ UNCHANGED <<config, envVars, evalVars, navVars, listVars>>

OpenSceneCall ==
    \E arg \in OpenArgs :
    \E last \in (IF arg[2] = <<>>
                 THEN lastOutcomes(LastVersionOfElementScene(config, disk, arg[1], arg[3]))
                 ELSE {[err |-> "none", name |-> <<>>]}) :
    \E r0 \in {OpenSceneScene(config, disk, arg[1], arg[2], arg[3], last, FALSE)} :
    \E recentFails \in (IF r0.ret = "ok" THEN BOOLEAN ELSE {FALSE}),
       procErr \in (IF r0.ret = "ok" THEN BOOLEAN ELSE {FALSE}) :
    \E r \in {IF recentFails
              THEN processError(OpenSceneScene(config, disk, arg[1], arg[2], arg[3],
                                               last, TRUE), procErr)
              ELSE processError(r0, procErr)} :
       /\ sceneCall' = [op |-> "OpenScene", elem |-> arg[1], prog |-> arg[3],
                        verArg |-> arg[2], last |-> last, ret |-> r.ret,
                        err |-> r.err, ver |-> r.ver, scene |-> r.scene,
                        argv |-> r.argv, sceneEnv |-> r.sceneEnv, pre |-> disk,
                        recentFails |-> recentFails, procErr |-> procErr]
       /\ UNCHANGED <<config, disk, envVars, evalVars, navVars, listVars>>

ListElementsCall ==
    \E r \in {ListElementsScene(config, disk)} :
    \E elems \in (IF r.err = "none" THEN r.elems ELSE {<<>>}) :
       /\ sceneCall' = [op |-> "ListElements", err |-> r.err, elems |-> elems,
                        pre |-> disk]
       /\ UNCHANGED <<config, disk, envVars, evalVars, navVars, listVars>>

LastVersionOfElementCall ==
    \E arg \in LastArgs :
    \E last \in lastOutcomes(LastVersionOfElementScene(config, disk, arg[1], arg[2])) :
       /\ sceneCall' = [op |-> "LastVersionOfElement", elem |-> arg[1],
                        prog |-> arg[2], err |-> last.err, name |-> last.name,
                        pre |-> disk]
       /\ UNCHANGED <<config, disk, envVars, evalVars, navVars, listVars>>

NextScene ==
    \/ NewElementCall
    \/ OpenSceneCall
    \/ ListElementsCall
    \/ LastVersionOfElementCall

SpecScene == InitScene /\ [][NextScene]_vars

----------------------------------------------------------------------------
(* Scene operations: the properties                                        *)

ScenePath(ver) == SceneDirPath \o <<"/">> \o SceneFile(ver, <<"m", "a">>)

\* NewElement("/show/seq/shot01", "main", "maya") has returned at a site whose
\* SCENE_NAME is nameEnv and whose scene directory held only
\* shot01_main_v001.ma
EndToEndScenario(nameEnv) ==
    /\ sceneCall.op = "NewElement"
    /\ sceneCall.elem = ElemMain /\ sceneCall.prog = ProgMaya
    /\ config.Envs = <<EnvSceneDir, nameEnv, EnvSceneNameQuery>>
    /\ config.Forge = <<ForgeShot>>
    /\ sceneCall.pre = [dirs |-> {SceneDirPath}, files |-> {Ma(V001)}]

\* the call selected v002 and /proj/shot01/work/shot01_main_v002.ma and
\* launched the creation command with SCENE bound to that path
EndToEndOutcome ==
    /\ sceneCall.ver = V002
    /\ sceneCall.scene = ScenePath(V002)
    /\ sceneCall.argv = <<ProgMaya, ScenePath(V002)>>
    /\ sceneCall.sceneEnv = ScenePath(V002)

\* C12 as stated: with SCENE_NAME=$SHOT_$ELEM_$VER.$EXT the end-to-end
\* scenario selects v002 and shot01_main_v002.ma and launches the creation
\* command with SCENE bound to that path.
C12_EndToEndPlainReferences == EndToEndScenario(EnvSceneName) => EndToEndOutcome

\* C12 amended: with SCENE_NAME=${SHOT}_${ELEM}_$VER.$EXT, SCENE_DIR, SHOT,
\* maya and the directory as stated, NewElement selects version v002 and
\* target file /proj/shot01/work/shot01_main_v002.ma and invokes the creation
\* command with SCENE bound to that path.
C12_EndToEndBracedReferences == EndToEndScenario(EnvSceneNameBraced) => EndToEndOutcome

C12_Witness == EndToEndScenario(EnvSceneNameBraced) /\ sceneCall.ret = "ok"

\* the version tokens ("v" or "V" and digits) of the scene files of main and
\* maya that dsk holds, and the numbers their digits stand for
ExistingTokens(dsk) ==
    {tok \in {SubSeq(f.name, 13, Len(f.name) - 3) :
                 f \in {g \in dsk.files : ~g.isDir /\ Len(g.name) >= 17}} :
        /\ tok[1] \in {"v", "V"} /\ AllDigits(Tail(tok))
        /\ Ma(tok) \in dsk.files}
ExistingNums(dsk) == {digitsVal(Tail(tok)) : tok \in ExistingTokens(dsk)}

\* the number written with the default prefix and width
DefaultVer(n) ==
    <<"v">> \o (IF Len(natStr(n)) < 3 THEN Zeros(3 - Len(natStr(n))) ELSE <<>>) \o natStr(n)

\* the first number from n on whose scene file (or directory) dsk lacks
RECURSIVE FirstAbsent(_, _)
FirstAbsent(dsk, n) ==
    IF \E f \in dsk.files : f.dir = SceneDirPath /\ f.name = SceneFile(DefaultVer(n), <<"m", "a">>)
    THEN FirstAbsent(dsk, n + 1)
    ELSE n

\* NewElement of main and maya has returned at the default site
DefaultNewElement ==
    /\ sceneCall.op = "NewElement"
    /\ sceneCall.elem = ElemMain /\ sceneCall.prog = ProgMaya
    /\ config.Envs = SiteEnvsDefault

\* C13: NewElement targets the largest existing version number + 1, or the
\* default start 1 (v001) when no version exists, advanced past every
\* candidate that exists; the target does not exist when it is selected.
C13_NextVersionIsMaxPlusOne ==
    DefaultNewElement =>
        LET nums == ExistingNums(sceneCall.pre)
            start == IF nums = {} THEN 1 ELSE MaxOf(nums) + 1
        IN  /\ sceneCall.ver = DefaultVer(FirstAbsent(sceneCall.pre, start))
            /\ sceneCall.scene = ScenePath(sceneCall.ver)
            /\ ~\E f \in sceneCall.pre.files : f.dir \o <<"/">> \o f.name = sceneCall.scene

\* NEW_VER as P followed by D: the length of D, its maximal trailing run of
\* digits, then P and D
RECURSIVE TrailingDigits(_)
TrailingDigits(s) ==
    IF s # <<>> /\ s[Len(s)] \in Digits THEN 1 + TrailingDigits(SubSeq(s, 1, Len(s) - 1))
    ELSE 0
ClaimedPrefix(newVer) ==
    IF newVer = <<>> THEN <<"v">> ELSE SubSeq(newVer, 1, Len(newVer) - TrailingDigits(newVer))
ClaimedDigits(newVer) ==
    IF newVer = <<>> THEN <<"0", "0", "1">>
    ELSE SubSeq(newVer, Len(newVer) - TrailingDigits(newVer) + 1, Len(newVer))

\* n zero-padded to at least width digits, never truncated
Padded(width, n) ==
    (IF Len(natStr(n)) < width THEN Zeros(width - Len(natStr(n))) ELSE <<>>) \o natStr(n)

\* C14: with NEW_VER = P D (D its maximal trailing run of digits) NewElement
\* renders a version as P and the number zero-padded to at least len(D)
\* digits, never truncated, and starts from the number D when no version
\* exists; unset, the prefix is "v" and the width 3.
C14_NewVerPrefixAndWidth ==
    (/\ sceneCall.op = "NewElement"
     /\ sceneCall.elem = ElemMain /\ sceneCall.prog = ProgMaya
     /\ \E i \in 1..Len(config.Envs) : config.Envs[i] = EnvSceneNameBraced
     /\ sceneCall.ver # <<>>) =>
        LET newVer == getEnv(KeyNewVer, config.Envs)
            P == ClaimedPrefix(newVer)
            D == ClaimedDigits(newVer)
            number == TrimPrefix(sceneCall.ver, P)
        IN  /\ HasPrefix(sceneCall.ver, P)
            /\ number # <<>> /\ AllDigits(number)
            /\ number = Padded(Len(D), digitsVal(number))
            /\ ExistingTokens(sceneCall.pre) = {} => number = D

\* a version token: "v" or "V" followed by digits
IsVersionToken(tok) ==
    Len(tok) >= 2 /\ tok[1] \in {"v", "V"} /\ AllDigits(Tail(tok))

\* C15: a version token's number is the value of its digits, for "v" and
\* for "V": in the Versions ListElements returns, in the version
\* LastVersionOfElement picks as the last one, and in NewElement, which
\* computes the next number from it.
C15_VersionNumberBothPrefixes ==
    /\ sceneCall.op = "ListElements" =>
          \A i \in 1..Len(sceneCall.elems) :
          \A j \in 1..Len(sceneCall.elems[i].Versions) :
             LET v == sceneCall.elems[i].Versions[j]
             IN  IsVersionToken(v.Name) => v.Num = digitsVal(Tail(v.Name))
    /\ (/\ sceneCall.op = "LastVersionOfElement" /\ sceneCall.err = "none"
        /\ sceneCall.elem = ElemMain /\ sceneCall.prog = ProgMaya
        /\ config.Envs = SiteEnvsDefault) =>
          digitsVal(Tail(sceneCall.name)) = MaxOf(ExistingNums(sceneCall.pre))
    /\ sceneCall.op = "NewElement" => sceneCall.err # "atoi"

\* the version tokens of the i-th Elem ListElements returned
VersionNames(i) ==
    [j \in 1..Len(sceneCall.elems[i].Versions) |-> sceneCall.elems[i].Versions[j].Name]

\* ListElements has returned the one Elem of a directory that held exactly
\* the maya files of the tokens toks
ListedOnly(toks) ==
    /\ sceneCall.op = "ListElements" /\ sceneCall.err = "none"
    /\ sceneCall.pre.files = {Ma(tok) : tok \in toks}
    /\ Len(sceneCall.elems) = 1

\* C16: in every Elem ListElements returns the Versions are ordered by Num
\* descending and, for equal Num, the longer token first; a Version without
\* a number (Num = -1) comes after every numbered one; v001, v002, v0010 are
\* returned as [v0010, v002, v001] and v009 before v9.
C16_VersionsNewestFirst ==
    sceneCall.op = "ListElements" =>
        /\ \A i \in 1..Len(sceneCall.elems) :
              LET vs == sceneCall.elems[i].Versions
              IN  \A j, k \in 1..Len(vs) :
                     j < k =>
                        /\ vs[j].Num >= vs[k].Num
                        /\ vs[j].Num = vs[k].Num => Len(vs[j].Name) >= Len(vs[k].Name)
                        /\ vs[k].Num >= 0 => vs[j].Num >= 0
        /\ ListedOnly({V001, V002, V0010}) => VersionNames(1) = <<V0010, V002, V001>>
        /\ ListedOnly({V009, V9}) => VersionNames(1) = <<V009, V9>>

C16_Witness == ListedOnly({V009, V9}) /\ VersionNames(1) = <<V009, V9>>

\* the files of dsk that the claim gives a Version: regular files whose whole
\* name matches the query with an empty EXTRA and the extension of a
\* configured Program
ProgramExts(cfg) == {cfg.Programs[i].Ext : i \in 1..Len(cfg.Programs)}
VersionFiles(cfg, dsk) ==
    LET env == EntryEnvironsOf(cfg)
        query == evalEnvString(getEnv(KeySceneNameQuery, env), env)
    IN  {f \in dsk.files :
            /\ ~f.isDir /\ f.dir = SceneDirPath
            /\ LET m == FindStringSubmatch(query, f.name)
               IN  m.ok /\ m.EXTRA = <<>> /\ m.EXT \in ProgramExts(cfg)}

\* the Scene of every Version of the list ListElements returned
RECURSIVE ListedScenes(_)
ListedScenes(elems) ==
    IF elems = <<>> THEN <<>>
    ELSE [j \in 1..Len(elems[1].Versions) |-> elems[1].Versions[j].Scene]
            \o ListedScenes(Tail(elems))

\* C17: ListElements returns exactly one Version for each regular file whose
\* whole name matches the query with an empty EXTRA and a configured
\* extension, and none for any other file.
C17_OneVersionPerMatchingFile ==
    (sceneCall.op = "ListElements" /\ sceneCall.err = "none") =>
        LET scenes == ListedScenes(sceneCall.elems)
            files == VersionFiles(config, sceneCall.pre)
        IN  /\ {scenes[i] : i \in 1..Len(scenes)} =
                  {f.dir \o <<"/">> \o f.name : f \in files}
            /\ Len(scenes) = Cardinality(files)

\* the Elems of the list ListElements returned that hold a Version of the
\* file f
HoldersOf(f) ==
    {i \in 1..Len(sceneCall.elems) :
        \E k \in 1..Len(sceneCall.elems[i].Versions) :
           sceneCall.elems[i].Versions[k].Scene = f.dir \o <<"/">> \o f.name}

\* the ELEM of the name of f and the Name of the Program of its extension
KeyOfFile(cfg, f) ==
    LET env == EntryEnvironsOf(cfg)
        m == FindStringSubmatch(evalEnvString(getEnv(KeySceneNameQuery, env), env),
                                f.name)
    IN  [Name |-> m.ELEM,
         Programs |-> {cfg.Programs[i].Name :
                          i \in {j \in 1..Len(cfg.Programs) : cfg.Programs[j].Ext = m.EXT}}]

ConfigErrors == {"unknown program", "no scene directory", "no scene name"}

\* C18: a missing scene directory is scanned as an empty one: ListElements
\* returns the empty list without error, and LastVersionOfElement fails with
\* ElemNotExistError, and no other error, when the scan finds no file.
C18_MissingDirectoryIsEmpty ==
    /\ (/\ sceneCall.op = "ListElements"
        /\ SceneDirPath \notin sceneCall.pre.dirs
        /\ sceneCall.err # "no scene directory") =>
          sceneCall.err = "none" /\ sceneCall.elems = <<>>
    /\ (/\ sceneCall.op = "LastVersionOfElement"
        /\ sceneCall.err \notin ConfigErrors
        /\ {f \in sceneCall.pre.files : f.dir = SceneDirPath /\ ~f.isDir} = {}) =>
          sceneCall.err = "ElemNotExistError"

\* prog is not a program of the configuration
Unregistered(prog) == \A i \in 1..Len(config.Programs) : config.Programs[i].Name # prog

\* the command the operation launches for prog is empty, or every token of
\* it expands to blanks
BlankCommand(op, prog) ==
    \E i \in 1..Len(config.Programs) :
       /\ config.Programs[i].Name = prog
       /\ LET cmd == IF op = "NewElement" THEN config.Programs[i].CreateCmd
                     ELSE config.Programs[i].OpenCmd
          IN  \A j \in 1..Len(cmd) : cmd[j] = CmdBlank

\* C19: NewElement (OpenScene) with an unregistered program, or with a
\* program whose creation (open) command is empty or blank, returns an error
\* and launches nothing; it does not abort.
C19_NoCommandIsAnError ==
    (/\ sceneCall.op \in {"NewElement", "OpenScene"}
     /\ Unregistered(sceneCall.prog) \/ BlankCommand(sceneCall.op, sceneCall.prog)) =>
        sceneCall.ret = "err" /\ sceneCall.argv = <<>>

----------------------------------------------------------------------------
(* Navigator with cache: the form of the stored paths                      *)

\* absolute, and "/" itself or without a trailing "/"
WellFormedPath(p) ==
    /\ p # <<>> /\ p[1] = "/"
    /\ p = Root \/ p[Len(p)] # "/"

\* C20: after GoTo with a non-empty argument, absolute or not, the current
\* path and the history entry GoTo appended are absolute and are "/" or do
\* not end with "/".
C20_StoredPathsWellFormed ==
    (navCall.op = "GoTo" /\ navCall.arg # <<>> /\ navCall.ret # "panic") =>
        /\ WellFormedPath(state.Path)
        /\ \A i \in 1..Len(history) : i = historyIdx + 1 => WellFormedPath(history[i])

----------------------------------------------------------------------------
(* Navigator: the moves along the history *)

\* the call is GoBack or GoForward and found the index at i
MoveFrom(op, i) == Called(op) /\ historyIdx = i

\* the index moved by d and the current path is the entry at the new index
MovedBy(d) ==
    /\ historyIdx' = historyIdx + d
    /\ PathOf(state') = history'[historyIdx' + 1]

\* history, index and current path are what the call found
NavigatorKept ==
    /\ history' = history
    /\ historyIdx' = historyIdx
    /\ PathOf(state') = PathOf(state)

\* C21 as stated: GoBack with index > 0 decrements the index by exactly one
\* and sets the current path to history[index], at index 0 it changes
\* nothing; GoForward increments by one below the last index and changes
\* nothing at the last index; neither changes history.
C21_BackForwardMoveByOne ==
    [][ /\ (Called("GoBack") /\ historyIdx > 0) => MovedBy(0 - 1)
        /\ MoveFrom("GoBack", 0) => NavigatorKept
        /\ (Called("GoForward") /\ 0 <= historyIdx /\ historyIdx < Len(history) - 1)
              => MovedBy(1)
        /\ (history # <<>> /\ MoveFrom("GoForward", Len(history) - 1)) => NavigatorKept
        /\ (Called("GoBack") \/ Called("GoForward")) => history' = history
      ]_vars

\* C21 amended: the move happens when the entry to move to resolves; when it
\* does not, the call returns the error and changes nothing.
C21_BackForwardMoveByOneWhenResolved ==
    [][ /\ (Called("GoBack") /\ historyIdx > 0) =>
              IF navCall'.resolved THEN MovedBy(0 - 1) ELSE NavigatorKept
        /\ MoveFrom("GoBack", 0) => NavigatorKept
        /\ (Called("GoForward") /\ 0 <= historyIdx /\ historyIdx < Len(history) - 1) =>
              IF navCall'.resolved THEN MovedBy(1) ELSE NavigatorKept
        /\ (history # <<>> /\ MoveFrom("GoForward", Len(history) - 1)) => NavigatorKept
        /\ (Called("GoBack") \/ Called("GoForward")) => history' = history
      ]_vars

\* a GoForward that moved to /b, which takes a GoBack from /b before it
C21_Witness ==
    /\ navCall.op = "GoForward" /\ navCall.resolved
    /\ history = <<Root, PathB>> /\ historyIdx = 1
    /\ state.Path = PathB

\* C28: whenever the history is not empty the current path is the entry of
\* the history at historyIdx, after every call, Logout and Login included.
C28_PathIsHistoryEntry ==
    (history # <<>> /\ state # Nil) =>
        /\ historyIdx \in 0..(Len(history) - 1)
        /\ state.Path = history[historyIdx + 1]

\* C29: while no state has been created (Prepare failed before afterLogin
\* made one, and no Login or Logout has made one since) a GoTo, GoBack or
\* GoForward returns an error or does nothing; it does not dereference the
\* absent state.
C29_NoCallOnAbsentState ==
    (state = Nil /\ navCall.op \in NavOps) => navCall.ret # "panic"

\* C33: in every state, also after an entry load that failed part-way,
\* state.Entries and state.Elements are not both non-empty, a state at a leaf
\* lists no entries, a state not at a leaf lists no elements, and AtLeaf
\* tells whether the loaded entry is of the leaf type.
C33_EntriesOrElements ==
    state # Nil =>
        /\ ~(state.Entries # <<>> /\ state.Elements # <<>>)
        /\ state.AtLeaf => state.Entries = <<>>
        /\ ~state.AtLeaf => state.Elements = <<>>
        /\ state.AtLeaf <=> state.Entry \in LeafEntries

----------------------------------------------------------------------------
(* Navigator: calls under way at the same time.  The UI starts GoBack,     *)
(* GoForward and ReloadEntry without waiting for the call before, and it   *)
(* handles a click while an awaited GoTo is under way; every call runs on  *)
(* its own goroutine and the handlers take no lock around a.history and    *)
(* a.historyIdx.  A handler is cut at its statements that read or write    *)
(* a.history, a.historyIdx or a.state.Path; GetEntry, which touches none   *)
(* of them, goes with the statement before it, and loadEntry, which        *)
(* touches neither the history nor the index, is the last step.            *)

Flights == 1..MaxCalls
RaceOps == {"GoTo", "GoBack", "GoForward", "ReloadEntry"}

\* where a call ends: returned nil, returned an error, or the runtime
\* stopped it at an index out of range
Landed == {"ok", "err", "panic"}

\* a call: its method, its position, and its local pth
Flight(op, pc, pth) == [op |-> op, pc |-> pc, pth |-> pth]

\* what a step leaves: the App and the call
Stepped(a, c, pc, pth) == [a |-> a, c |-> Flight(c.op, pc, pth)]

\* k is an index of h (0-based, as in the code)
InRange(h, k) == 0 <= k /\ k <= Len(h) - 1

\* entry, err := a.GetEntry(pth), and where the call goes on
afterGetEntry(a, c, pth, pc) ==
    {IF GetEntryOk(a, pth, fail) THEN Stepped(a, c, pc, pth)
     ELSE Stepped(a, c, "err", <<>>) : fail \in {"none", "entry"}}

\* err = a.loadEntry(entry) and the return
loadEntryStep(a, c) ==
    {TheOne({Stepped(r.a, c, r.ret, <<>>) :
                r \in {loadEntry(a, c.pth, fail, <<>>)}}) : fail \in {"none", "list"}}

GoToSteps(a, c) ==
    CASE c.pc = "start" ->
            IF c.pth = <<>> THEN {Stepped(a, c, "err", <<>>)}
            ELSE IF trimSlash(c.pth) = a.state.Path THEN {Stepped(a, c, "ok", <<>>)}
            ELSE afterGetEntry(a, c, trimSlash(c.pth), "cut")
      [] c.pc = "cut" ->
            \* a.history[:a.historyIdx+1]
            IF Len(a.history) > a.historyIdx + 1 /\ a.historyIdx + 1 < 0
            THEN {Stepped(a, c, "panic", <<>>)}
            ELSE {Stepped([a EXCEPT !.history = truncate(a.history, a.historyIdx)],
                          c, "append", c.pth)}
      [] c.pc = "append" ->
            {Stepped([a EXCEPT !.history = Append(@, c.pth)], c, "index", c.pth)}
      [] c.pc = "index" ->
            {Stepped([a EXCEPT !.historyIdx = lastIdx(a.history)], c, "path", c.pth)}
      [] c.pc = "path" ->
            \* a.state.Path = a.history[a.historyIdx]
            IF ~InRange(a.history, a.historyIdx) THEN {Stepped(a, c, "panic", <<>>)}
            ELSE {Stepped([a EXCEPT !.state.Path = a.history[a.historyIdx + 1],
                                    !.cachedEnvs = {}],
                          c, "load", c.pth)}
      [] c.pc = "load" -> loadEntryStep(a, c)

GoBackSteps(a, c) ==
    CASE c.pc = "start" ->
            {Stepped(IF a.historyIdx < 0 THEN [a EXCEPT !.historyIdx = 0] ELSE a,
                     c, "check", <<>>)}
      [] c.pc = "check" ->
            {Stepped(a, c, IF a.historyIdx <= 0 THEN "err" ELSE "read", <<>>)}
      [] c.pc = "read" ->
            \* pth := a.history[a.historyIdx-1]
            IF ~InRange(a.history, a.historyIdx - 1) THEN {Stepped(a, c, "panic", <<>>)}
            ELSE afterGetEntry(a, c, a.history[a.historyIdx], "move")
      [] c.pc = "move" ->
            {Stepped([a EXCEPT !.historyIdx = @ - 1], c, "path", c.pth)}
      [] c.pc = "path" ->
            {Stepped([a EXCEPT !.state.Path = c.pth], c, "load", c.pth)}
      [] c.pc = "load" -> loadEntryStep(a, c)

GoForwardSteps(a, c) ==
    CASE c.pc = "start" ->
            {Stepped(IF a.historyIdx > Len(a.history) - 1
                     THEN [a EXCEPT !.historyIdx = Len(a.history) - 1] ELSE a,
                     c, "check", <<>>)}
      [] c.pc = "check" ->
            {Stepped(a, c, IF a.historyIdx >= Len(a.history) - 1 THEN "err" ELSE "read",
                     <<>>)}
      [] c.pc = "read" ->
            \* pth := a.history[a.historyIdx+1]
            IF ~InRange(a.history, a.historyIdx + 1) THEN {Stepped(a, c, "panic", <<>>)}
            ELSE afterGetEntry(a, c, a.history[a.historyIdx + 2], "move")
      [] c.pc = "move" ->
            {Stepped([a EXCEPT !.historyIdx = @ + 1], c, "path", c.pth)}
      [] c.pc = "path" ->
            {Stepped([a EXCEPT !.state.Path = c.pth], c, "load", c.pth)}
      [] c.pc = "load" -> loadEntryStep(a, c)

ReloadEntrySteps(a, c) ==
    CASE c.pc = "start" ->
            \* if len(a.history) != 0 { pth = a.history[a.historyIdx] }
            IF a.history = <<>> THEN afterGetEntry(a, c, Root, "load")
            ELSE IF ~InRange(a.history, a.historyIdx) THEN {Stepped(a, c, "panic", <<>>)}
            ELSE afterGetEntry(a, c, a.history[a.historyIdx + 1], "load")
      [] c.pc = "load" -> loadEntryStep(a, c)

StepsOf(a, c) ==
    CASE c.op = "GoTo" -> GoToSteps(a, c)
      [] c.op = "GoBack" -> GoBackSteps(a, c)
      [] c.op = "GoForward" -> GoForwardSteps(a, c)
      [] c.op = "ReloadEntry" -> ReloadEntrySteps(a, c)

\* the App after a login that went to "/", and no call under way
InitRace ==
    /\ history = <<Root>> /\ historyIdx = 0 /\ session = TRUE
    /\ state = [newState EXCEPT !.baseLoaded = TRUE, !.Path = Root, !.Entry = Root,
                                !.Entries = SubEntriesOf(Root)]
    /\ cachedEnvs = {} /\ navCall = NoCall /\ envFetches = 0
    /\ inFlight = [t \in Flights |-> Flight("none", "ok", <<>>)]
    /\ IdleEnv /\ IdleEval /\ IdleScene /\ IdleList

\* an index out of range stops the program
Crashed == \E t \in Flights : inFlight[t].pc = "panic"

\* a click: a method is called while the calls before it may be under way
StartCall ==
    /\ ~Crashed
    /\ \E t \in Flights, op \in RaceOps :
       \E arg \in (IF op = "GoTo" THEN EntryTree ELSE {<<>>}) :
          /\ inFlight[t].pc \in Landed
          /\ inFlight' = [inFlight EXCEPT ![t] = Flight(op, "start", arg)]
          /\ UNCHANGED <<history, historyIdx, state, session, cachedEnvs, navCall,
                         envFetches, envVars, evalVars, sceneVars, listVars>>

\* the next statement of a call of op that is under way
StepCall(op) ==
    /\ ~Crashed
    /\ \E t \in Flights :
          /\ inFlight[t].op = op /\ inFlight[t].pc \notin Landed
          /\ \E r \in StepsOf(App, inFlight[t]) :
                /\ Len(r.a.history) <= MaxHist
                /\ history' = r.a.history
                /\ historyIdx' = r.a.historyIdx
                /\ state' = r.a.state
                /\ cachedEnvs' = r.a.cachedEnvs
                /\ inFlight' = [inFlight EXCEPT ![t] = r.c]
                /\ UNCHANGED <<session, navCall, envFetches, envVars, evalVars,
                               sceneVars, listVars>>

GoToStep == StepCall("GoTo")
GoBackStep == StepCall("GoBack")
GoForwardStep == StepCall("GoForward")
ReloadEntryStep == StepCall("ReloadEntry")

NextRace ==
    \/ StartCall
    \/ GoToStep
    \/ GoBackStep
    \/ GoForwardStep
    \/ ReloadEntryStep

SpecRace == InitRace /\ [][NextRace]_vars

\* C27: however GoTo, GoBack, GoForward and ReloadEntry calls under way at
\* the same time interleave, every access history[historyIdx],
\* history[historyIdx-1] or history[historyIdx+1] uses an index within
\* [0, len(history)-1]: no call is stopped at an index out of range.
C27_IndexInRangeAtEveryAccess ==
    \A t \in DOMAIN inFlight : inFlight[t].pc # "panic"

----------------------------------------------------------------------------
(* The entry page: src/app.go ListEntries, ListAllEntries, subAssigned,    *)
(* makeEntrySorters, SetAssignedOnly and ToggleExposeProperty.  An entry   *)
(* is [Path, Type, Property], Property the set of its [Name, Type, Value]. *)

\* forge.Entry.Name(): the last segment of the path
EntryName(e) == SubSeq(e.Path, MaxOf(IndexesOf(e.Path, "/")) + 1, Len(e.Path))

\* ents[i].Property[prop]: Nil for a property the entry does not hold
propertyOf(e, prop) ==
    IF \E q \in e.Property : q.Name = prop
    THEN CHOOSE q \in e.Property : q.Name = prop
    ELSE Nil

\* a.entrySorters[typ] of a type no rule was made for
ZeroSorter == [Property |-> <<>>, Descending |-> FALSE]

\* makeEntrySorters: a rule is "+prop" or "-prop"; an empty rule and one
\* with another first character make no Sorter
sorterOf(rule) ==
    IF rule = <<>> \/ rule[1] \notin {"+", "-"} THEN ZeroSorter
    ELSE [Property |-> Tail(rule), Descending |-> (rule[1] = "-")]
makeEntrySorters(entryPageSortProperty) ==
    [typ \in DOMAIN entryPageSortProperty |-> sorterOf(entryPageSortProperty[typ])]

\* what the closure of ListAllEntries leaves: cmp, and dir (set to 1 when
\* exactly one of the two values is empty)
intCompare(iv, jv) == IF iv < jv THEN 0 - 1 ELSE IF iv > jv THEN 1 ELSE 0
valueCompare(ip, jp, dir) ==
    IF ip.Type = <<"i", "n", "t">>
    THEN [cmp |-> intCompare(Atoi(ip.Value).n, Atoi(jp.Value).n), dir |-> dir]
    ELSE [cmp |-> Compare(ip.Value, jp.Value), dir |-> dir]
emptyCompare(ip, jp, dir, cmp) ==
    IF cmp # 0 THEN [cmp |-> cmp, dir |-> 1] ELSE valueCompare(ip, jp, dir)
propertyCompare(ip, jp, dir) ==
    IF ip = Nil THEN [cmp |-> 0 - 1, dir |-> dir]
    ELSE IF jp = Nil THEN [cmp |-> 1, dir |-> dir]
    ELSE IF Compare(ip.Type, jp.Type) # 0
         THEN [cmp |-> Compare(ip.Type, jp.Type), dir |-> dir]
    ELSE emptyCompare(ip, jp, dir,
                      (IF ip.Value = <<>> THEN 1 ELSE 0) - (IF jp.Value = <<>> THEN 1 ELSE 0))
sorterCompare(sorter, x, y, dir) ==
    IF sorter.Property = <<>> THEN [cmp |-> 0, dir |-> dir]
    ELSE propertyCompare(propertyOf(x, sorter.Property), propertyOf(y, sorter.Property), dir)

\* cmp = strings.Compare(ents[i].Name(), ents[j].Name()) and what follows
nameLess(x, y, dir) ==
    IF Compare(EntryName(x), EntryName(y)) # 0
    THEN dir * Compare(EntryName(x), EntryName(y)) < 0
    ELSE TRUE

\* the less function ListAllEntries sorts with
sortedLess(c, x, y, dir) ==
    IF c.cmp # 0 THEN c.dir * c.cmp < 0 ELSE nameLess(x, y, dir)
typedLess(sorter, x, y) ==
    TheOne({sortedLess(c, x, y, dir) :
               dir \in {IF sorter.Descending THEN 0 - 1 ELSE 1},
               c \in {sorterCompare(sorter, x, y, IF sorter.Descending THEN 0 - 1 ELSE 1)}})
entryLess(sorters, x, y) ==
    IF Compare(x.Type, y.Type) # 0 THEN Compare(x.Type, y.Type) < 0
    ELSE typedLess(sorters[x.Type], x, y)

\* ListAllEntries(path): the orders sort.Slice can leave the sub-entries in.
\* Of two entries less puts one way only, the first comes first; two that
\* less puts both ways or neither way may come in either order.
ListAllEntriesPage(sorters, ents) ==
    {q \in Perms(ents) :
        \A i, j \in 1..Len(q) :
            i < j => ~(entryLess(sorters, q[j], q[i]) /\ ~entryLess(sorters, q[i], q[j]))}

\* a plausible slip: any assigned entry below dir is taken, itself
subAssignedWhole(asg, path) ==
    {x \in asg : HasPrefix(x, TrimSuffix(path, <<"/">>) \o <<"/">>)}

\* subAssigned(path), as the set ListEntries makes of it (vis)
subAssignedOf(dir, asg) ==
    {dir \o <<"/">> \o SplitN(TrimPrefix(pth, dir \o <<"/">>), "/", 2)[1] :
        pth \in {TrimSuffix(x, <<"/">>) :
                    x \in {y \in asg : y # dir
                                       /\ HasPrefix(TrimSuffix(y, <<"/">>), dir \o <<"/">>)}}}
subAssigned(asg, path) == subAssignedOf(TrimSuffix(path, <<"/">>), asg)

\* the entries of subs ListEntries keeps, in their order
RECURSIVE visible(_, _)
visible(subs, vis) ==
    IF subs = <<>> THEN <<>>
    ELSE (IF subs[1].Path \in vis THEN <<subs[1]>> ELSE <<>>) \o visible(Tail(subs), vis)

\* ListEntries(path) once ListAllEntries has returned subs
ListEntriesPage(st, asg, path, subs) ==
    IF st.Options.AssignedOnly THEN visible(subs, subAssigned(asg, path)) ELSE subs

\* props = append(props[:idx], props[idx+1:]...): the elements behind idx
\* move one place down in the array props shares with the slice the state
\* holds, whose length stays
shiftedInPlace(props, idx) ==
    [i \in 1..Len(props) |-> IF i >= idx /\ i < Len(props) THEN props[i + 1] ELSE props[i]]
removeAt(props, idx) == SubSeq(props, 1, idx - 1) \o SubSeq(props, idx + 1, Len(props))

\* ToggleExposeProperty(entType, prop): state.ExposedProperties[entType]
\* after the call, fails telling whether setUserData fails
toggled(props, prop, fails) ==
    IF IndexOf(props, prop) = 0
    THEN IF fails THEN props ELSE Append(props, prop)
    ELSE IF fails THEN shiftedInPlace(props, IndexOf(props, prop))
    ELSE removeAt(props, IndexOf(props, prop))

----------------------------------------------------------------------------
(* The entry page explored: the entry /s with two or three sub-entries, of *)
(* which some hold the property d, and the root                            *)

PathShow == <<"/", "s">>
TypeShow == <<"w">>
TypeSeq == <<"q">>
TypePart == <<"p">>
EntryTypes == {TypeShow, TypeSeq, TypePart}
PropDue == <<"d">>
IntType == <<"i", "n", "t">>

SubEntry(name, typ, props) == [Path |-> PathShow \o <<"/">> \o name, Type |-> typ, Property |-> props]
Due(value) == {[Name |-> PropDue, Type |-> IntType, Value |-> value]}
SubA == SubEntry(<<"a">>, TypeSeq, {})
SubB == SubEntry(<<"b">>, TypeSeq, Due(<<"2">>))
SubC == SubEntry(<<"c">>, TypeSeq, Due(<<"2">>))
SubD == SubEntry(<<"d">>, TypeSeq, Due(<<>>))
SubE == SubEntry(<<"e">>, TypeSeq, Due(<<"1", "0">>))
SubF == SubEntry(<<"f">>, TypePart, {})
SubG == SubEntry(<<"g">>, TypeSeq, {})

\* subEntries(host, session, "/s") and subEntries(host, session, "/")
PageSubs ==
    { {SubA, SubB}, {SubB, SubC}, {SubB, SubD}, {SubB, SubE}, {SubA, SubB, SubF},
      {SubA, SubG} }
RootSubs ==
    { [Path |-> PathShow, Type |-> TypeShow, Property |-> {}],
      [Path |-> <<"/", "s", "a">>, Type |-> TypeShow, Property |-> {}],
      [Path |-> <<"/", "t">>, Type |-> TypeShow, Property |-> {}] }
subEntries(path) == IF path = PathShow THEN hostSubs ELSE RootSubs
PagePaths == {PathShow, Root}

\* setting.EntryPageSortProperty: no rule, "+d", "-d", and "d" without a sign
SortRules == {<<>>, <<"+", "d">>, <<"-", "d">>, <<"d">>}
SortSettings == {[typ \in EntryTypes |-> IF typ = TypeSeq THEN rule ELSE <<>>] : rule \in SortRules}

\* what searchEntries returns for the user
ShotA1 == <<"/", "s", "/", "a", "/", "1">>
ShotA2 == <<"/", "s", "/", "a", "/", "2">>
AssignedChoices ==
    { {},
      {ShotA1, ShotA2},
      {PathShow, <<"/", "t", "/", "x">>, <<"/", "s", "a", "/", "1">>, SubB.Path} }

ExposeArgs == {<<TypeSeq, <<"a">>>>, <<TypeSeq, <<"b">>>>}
MaxExposed == 2     \* most exposed properties of one entry type

pageState ==
    [Options |-> [AssignedOnly |-> FALSE],
     ExposedProperties |-> [typ \in EntryTypes |-> <<>>]]

NoListCall ==
    [op |-> "none", path |-> <<>>, ret |-> "ok", ents |-> <<>>, entType |-> <<>>,
     prop |-> <<>>, fails |-> FALSE, before |-> <<>>, only |-> FALSE]

InitList ==
    /\ history = <<>> /\ historyIdx = 0 /\ session = TRUE
    /\ cachedEnvs = {} /\ navCall = NoCall /\ envFetches = 0
    /\ inFlight = <<>>
    /\ state = pageState
    /\ entrySorters = makeEntrySorters([typ \in EntryTypes |-> <<>>])
    /\ assigned = {}
    /\ hostSubs \in PageSubs
    /\ listCall = NoListCall
    /\ IdleEnv /\ IdleEval /\ IdleScene

PageFrame ==
    UNCHANGED <<history, historyIdx, session, cachedEnvs, navCall, envFetches, inFlight,
                envVars, evalVars, sceneVars, hostSubs>>

\* ReloadUserSetting, as far as the entry page reads what it stores
ReloadUserSettingCall ==
    \E setting \in SortSettings, fails \in BOOLEAN :
       /\ entrySorters' = IF fails THEN entrySorters ELSE makeEntrySorters(setting)
       /\ listCall' = [NoListCall EXCEPT !.op = "ReloadUserSetting", !.fails = fails,
                                         !.ret = IF fails THEN "err" ELSE "ok"]
       /\ UNCHANGED <<state, assigned>>
       /\ PageFrame

ReloadAssignedCall ==
    \E ents \in AssignedChoices, fails \in BOOLEAN :
       /\ assigned' = IF fails THEN assigned ELSE ents
       /\ listCall' = [NoListCall EXCEPT !.op = "ReloadAssigned", !.fails = fails,
                                         !.ret = IF fails THEN "err" ELSE "ok"]
       /\ UNCHANGED <<state, entrySorters>>
       /\ PageFrame

\* SetAssignedOnly(only): the option is set before the host is told
SetAssignedOnlyCall ==
    \E only \in BOOLEAN, fails \in BOOLEAN :
       /\ state' = [state EXCEPT !.Options.AssignedOnly = only]
       /\ listCall' = [NoListCall EXCEPT !.op = "SetAssignedOnly", !.fails = fails,
                                         !.only = only,
                                         !.ret = IF fails THEN "err" ELSE "ok"]
       /\ UNCHANGED <<entrySorters, assigned>>
       /\ PageFrame

ToggleExposePropertyCall ==
    \E arg \in ExposeArgs, fails \in BOOLEAN :
       /\ Len(toggled(state.ExposedProperties[arg[1]], arg[2], fails)) <= MaxExposed
       /\ state' = [state EXCEPT !.ExposedProperties[arg[1]] =
                                     toggled(state.ExposedProperties[arg[1]], arg[2], fails)]
       /\ listCall' = [NoListCall EXCEPT !.op = "ToggleExposeProperty",
                                         !.entType = arg[1], !.prop = arg[2],
                                         !.fails = fails,
                                         !.ret = IF fails THEN "err" ELSE "ok",
                                         !.before = state.ExposedProperties[arg[1]]]
       /\ UNCHANGED <<entrySorters, assigned>>
       /\ PageFrame

ListAllEntriesCall ==
    \E path \in PagePaths, fails \in BOOLEAN :
    \E subs \in (IF fails THEN {<<>>} ELSE ListAllEntriesPage(entrySorters, subEntries(path))) :
       /\ listCall' = [NoListCall EXCEPT !.op = "ListAllEntries", !.path = path,
                                         !.fails = fails, !.ents = subs,
                                         !.ret = IF fails THEN "err" ELSE "ok"]
       /\ UNCHANGED <<state, entrySorters, assigned>>
       /\ PageFrame

ListEntriesCall ==
    \E path \in PagePaths, fails \in BOOLEAN :
    \E subs \in (IF fails THEN {<<>>} ELSE ListAllEntriesPage(entrySorters, subEntries(path))) :
       /\ listCall' = [NoListCall EXCEPT !.op = "ListEntries", !.path = path,
                                         !.fails = fails,
                                         !.ents = ListEntriesPage(state, assigned, path, subs),
                                         !.ret = IF fails THEN "err" ELSE "ok"]
       /\ UNCHANGED <<state, entrySorters, assigned>>
       /\ PageFrame

NextList ==
    \/ ReloadUserSettingCall
    \/ ReloadAssignedCall
    \/ SetAssignedOnlyCall
    \/ ToggleExposePropertyCall
    \/ ListAllEntriesCall
    \/ ListEntriesCall

SpecList == InitList /\ [][NextList]_vars

----------------------------------------------------------------------------
(* The entry page: the properties *)

\* the last call listed entries and returned them
Listed == listCall.op \in {"ListAllEntries", "ListEntries"} /\ listCall.ret = "ok"

\* the property the rule of e's type sorts by; "" when the type has no rule
RuleProperty(e) == entrySorters[e.Type].Property

\* e lacks the property of its rule, or holds it without a value
LacksValue(e) ==
    \/ propertyOf(e, RuleProperty(e)) = Nil
    \/ propertyOf(e, RuleProperty(e)).Value = <<>>

\* C22: with a '+prop' or '-prop' rule for an entry type, every listed entry
\* of the type that lacks the property, or holds it without a value, comes
\* before every listed entry of the type that holds a value, under the
\* ascending and under the descending rule.
C22_MissingBeforePresent ==
    Listed =>
        \A i, j \in 1..Len(listCall.ents) :
            (/\ listCall.ents[i].Type = listCall.ents[j].Type
             /\ RuleProperty(listCall.ents[i]) # <<>>
             /\ LacksValue(listCall.ents[i])
             /\ ~LacksValue(listCall.ents[j])) => i < j

\* x and y hold the property of their rule with the same value
EqualValues(x, y) ==
    /\ propertyOf(x, RuleProperty(x)) # Nil
    /\ propertyOf(y, RuleProperty(y)) # Nil
    /\ propertyOf(x, RuleProperty(x)).Value = propertyOf(y, RuleProperty(y)).Value

\* C23: listed entries of a type without a rule come in ascending Name
\* order; with a rule, listed entries of the type with equal property
\* values come in ascending Name order, also under a '-prop' rule.
C23_NameAscendingOnTies ==
    Listed =>
        \A i, j \in 1..Len(listCall.ents) :
            (/\ i < j
             /\ listCall.ents[i].Type = listCall.ents[j].Type
             /\ \/ RuleProperty(listCall.ents[i]) = <<>>
                \/ EqualValues(listCall.ents[i], listCall.ents[j]))
            => Compare(EntryName(listCall.ents[i]), EntryName(listCall.ents[j])) < 0

\* the segments of a path, and the path of segments
RECURSIVE Segments(_)
Segments(pth) ==
    IF pth = <<>> THEN <<>>
    ELSE IF IndexOf(pth, "/") = 0 THEN <<pth>>
    ELSE (IF IndexOf(pth, "/") = 1 THEN <<>> ELSE <<SubSeq(pth, 1, IndexOf(pth, "/") - 1)>>)
         \o Segments(SubSeq(pth, IndexOf(pth, "/") + 1, Len(pth)))
RECURSIVE PathOfSegments(_)
PathOfSegments(segs) ==
    IF segs = <<>> THEN <<>> ELSE <<"/">> \o segs[1] \o PathOfSegments(Tail(segs))

\* x is a strict descendant of path; the sub-entry of path it lies under
StrictDescendant(x, path) ==
    /\ Len(Segments(x)) > Len(Segments(path))
    /\ SubSeq(Segments(x), 1, Len(Segments(path))) = Segments(path)
SubEntryToward(x, path) == PathOfSegments(SubSeq(Segments(x), 1, Len(Segments(path)) + 1))

\* C24: with assigned-only enabled, ListEntries(path) returns exactly the
\* sub-entries of path that lie on the way to an assigned entry which is a
\* strict descendant of path, each once; assigned entries equal to path or
\* outside its subtree contribute nothing.
C24_AssignedOnlyFirstSegment ==
    (listCall.op = "ListEntries" /\ listCall.ret = "ok" /\ state.Options.AssignedOnly) =>
        /\ {listCall.ents[i].Path : i \in 1..Len(listCall.ents)}
              = {e.Path : e \in subEntries(listCall.path)}
                  \cap {SubEntryToward(x, listCall.path) :
                           x \in {y \in assigned : StrictDescendant(y, listCall.path)}}
        /\ \A i, j \in 1..Len(listCall.ents) :
              i # j => listCall.ents[i].Path # listCall.ents[j].Path

\* /s listed with /s/a/1 and /s/a/2 assigned: /s/a alone, not /s/b
C24_Witness ==
    /\ listCall.op = "ListEntries" /\ listCall.ret = "ok" /\ listCall.path = PathShow
    /\ state.Options.AssignedOnly
    /\ assigned = {ShotA1, ShotA2}
    /\ hostSubs = {SubA, SubB}
    /\ listCall.ents = <<SubA>>

\* C30: when the update of the host fails inside ToggleExposeProperty, the
\* exposed properties of the entry type are the ones from before the call,
\* in the same order, whether the property was to be added or removed.
C30_FailedToggleKeepsExposed ==
    (listCall.op = "ToggleExposeProperty" /\ listCall.fails) =>
        state.ExposedProperties[listCall.entType] = listCall.before

----------------------------------------------------------------------------
(* Scene operations: a failing command *)

\* C25: a create or open command that cannot be started, or exits with an
\* error, does not make NewElement or OpenScene return an error: the recent
\* paths are updated afterwards, and the call returns what that update
\* returns.
C25_ProcessFailureNotReturned ==
    (sceneCall.op \in {"NewElement", "OpenScene"} /\ sceneCall.procErr) =>
        /\ sceneCall.ret = IF sceneCall.recentFails THEN "err" ELSE "ok"
        /\ sceneCall.err = IF sceneCall.recentFails THEN "recent paths" ELSE "none"

\* NewElement returned nil although its create command failed
C25_Witness ==
    /\ sceneCall.op = "NewElement" /\ sceneCall.procErr /\ ~sceneCall.recentFails
    /\ sceneCall.ret = "ok" /\ sceneCall.argv # <<>>

\* C36: the less function ListAllEntries sorts with is a strict ordering of
\* the entries it sorts: of no two entries does it put each before the
\* other, and it puts no entry before itself.
C36_ComparatorIsStrict ==
    listCall.op = "ListAllEntries" =>
        \A x, y \in subEntries(listCall.path) :
           ~(entryLess(entrySorters, x, y) /\ entryLess(entrySorters, y, x))

----------------------------------------------------------------------------
(* Scene operations: what NewElement does before it launches                *)

\* C31: a NewElement call that fails with "unknown program" or with a
\* missing SCENE_NAME / MAIN_SCENE_NAME leaves the filesystem as it was: the
\* scene directory is created only after both were checked.
C31_FailedValidationLeavesDisk ==
    (/\ sceneCall.op = "NewElement"
     /\ sceneCall.err \in {"unknown program", "no scene name"}) =>
        disk = sceneCall.pre

\* C32: the loop of NewElement over the candidate numbers ends for every
\* scene-name template and every content of the scene directory.
C32_FreeVersionSearchEnds ==
    sceneCall.op = "NewElement" => sceneCall.ret # "hang"

----------------------------------------------------------------------------
(* The preferences of the user: SetAssignedOnly, AddProgramInUse,          *)
(* RemoveProgramInUse and addRecentPath (the last step of NewElement and   *)
(* OpenScene).  Each tells the host first, or not, and changes a.state.    *)

\* forge.Arrange(elems, el, at, key, false) of the forge library: el is
\* taken out of elems and, unless at is -1, put in at index at (at the end
\* when at is beyond it)
Arrange(elems, el, at) ==
    LET rest == without(elems, el)
        k == IF at > Len(rest) THEN Len(rest) ELSE at
    IN  IF at < 0 THEN rest
        ELSE SubSeq(rest, 1, k) \o <<el>> \o SubSeq(rest, k + 1, Len(rest))

\* AddProgramInUse(prog, at): arrangeProgramInUse fails or the list is arranged
AddProgramInUseOf(st, prog, at, fails) ==
    IF fails THEN st ELSE [st EXCEPT !.ProgramsInUse = Arrange(@, prog, at)]

\* RemoveProgramInUse(prog)
RemoveProgramInUseOf(st, prog, fails) ==
    IF fails THEN st ELSE [st EXCEPT !.ProgramsInUse = Arrange(@, prog, 0 - 1)]

\* a plausible slip: the list is changed before the host has answered
addRecentPathOfEager(st, path, fails) == addRecentPath([state |-> st], path).state
\* addRecentPath(path): arrangeRecentPaths fails or the path moves to the head
addRecentPathOf(st, path, fails) ==
    IF fails THEN st ELSE addRecentPath([state |-> st], path).state

PathC == <<"/", "c">>
PrefPaths == {PathA, PathB, PathC}
PrefPrograms == {ProgMaya, ProgNuke, ProgRaw}
PrefAts == {0, 1, 5}

\* the state after a login: the lists the host holds for the user
InitPrefs ==
    /\ history = <<>> /\ historyIdx = 0 /\ session = TRUE
    /\ cachedEnvs = {} /\ navCall = NoCall /\ envFetches = 0
    /\ inFlight = <<>>
    /\ \E recent \in {<<>>, <<PathA, PathB>>}, inUse \in {<<>>, <<ProgMaya>>} :
          state = [Options |-> [AssignedOnly |-> FALSE], ProgramsInUse |-> inUse,
                   RecentPaths |-> recent]
    /\ listCall = NoListCall
    /\ entrySorters = <<>> /\ assigned = {} /\ hostSubs = {}
    /\ IdleEnv /\ IdleEval /\ IdleScene

AddProgramInUseCall ==
    \E prog \in PrefPrograms, at \in PrefAts, fails \in BOOLEAN :
       /\ state' = AddProgramInUseOf(state, prog, at, fails)
       /\ listCall' = [NoListCall EXCEPT !.op = "AddProgramInUse", !.prop = prog,
                                         !.fails = fails,
                                         !.ret = IF fails THEN "err" ELSE "ok"]
       /\ UNCHANGED <<entrySorters, assigned>>
       /\ PageFrame

RemoveProgramInUseCall ==
    \E prog \in PrefPrograms, fails \in BOOLEAN :
       /\ state' = RemoveProgramInUseOf(state, prog, fails)
       /\ listCall' = [NoListCall EXCEPT !.op = "RemoveProgramInUse", !.prop = prog,
                                         !.fails = fails,
                                         !.ret = IF fails THEN "err" ELSE "ok"]
       /\ UNCHANGED <<entrySorters, assigned>>
       /\ PageFrame

\* addRecentPath(path), as NewElement and OpenScene call it after the launch
AddRecentPathCall ==
    \E path \in PrefPaths, fails \in BOOLEAN :
       /\ state' = addRecentPathOf(state, path, fails)
       /\ listCall' = [NoListCall EXCEPT !.op = "addRecentPath", !.path = path,
                                         !.fails = fails,
                                         !.ret = IF fails THEN "err" ELSE "ok"]
       /\ UNCHANGED <<entrySorters, assigned>>
       /\ PageFrame

NextPrefs ==
    \/ SetAssignedOnlyCall
    \/ AddProgramInUseCall
    \/ RemoveProgramInUseCall
    \/ AddRecentPathCall

SpecPrefs == InitPrefs /\ [][NextPrefs]_vars

\* the calls that change a list of the user
ListPrefOps == {"AddProgramInUse", "RemoveProgramInUse", "addRecentPath"}

\* the claim as stated: none of the four calls changes the state when its
\* remote update failed
C34_FailedUpdateKeepsLocalState ==
    [][(listCall'.op \in ListPrefOps \cup {"SetAssignedOnly"} /\ listCall'.fails) =>
          state' = state]_vars

\* C34: AddProgramInUse, RemoveProgramInUse and addRecentPath change the
\* local state only when their remote update succeeded: after a failed one
\* the programs in use, the recent paths and the option are what they were.
\* SetAssignedOnly sets the local option first and keeps it when the remote
\* update fails; it leaves both lists alone.
C34_FailedUpdateKeepsLocalLists ==
    [][/\ (listCall'.op \in ListPrefOps /\ listCall'.fails) => state' = state
       /\ (listCall'.op = "SetAssignedOnly" /\ listCall'.fails) =>
             state' = [state EXCEPT !.Options.AssignedOnly = listCall'.only]
      ]_vars

\* a failed addRecentPath of a path that is not at the head of the list
C34_Witness ==
    /\ listCall.op = "addRecentPath" /\ listCall.fails
    /\ state.RecentPaths # <<>> /\ state.RecentPaths[1] # listCall.path

\* no path is twice in paths
NoDuplicates(paths) ==
    \A i, j \in 1..Len(paths) : paths[i] = paths[j] => i = j

\* C37: after a successful addRecentPath(p) the recent paths have p at
\* index 0 and nowhere else, followed by the other paths in the order they
\* had; a list without duplicates stays without duplicates.
C37_RecentPathMovesToHead ==
    [][(listCall'.op = "addRecentPath" /\ ~listCall'.fails) =>
          /\ state'.RecentPaths # <<>>
          /\ state'.RecentPaths[1] = listCall'.path
          /\ \A i \in 2..Len(state'.RecentPaths) :
                state'.RecentPaths[i] # listCall'.path
          /\ Tail(state'.RecentPaths) =
                SelectSeq(state.RecentPaths, LAMBDA x : x # listCall'.path)
          /\ NoDuplicates(state.RecentPaths) => NoDuplicates(state'.RecentPaths)
      ]_vars

\* /c was recorded after /a and /b, and then /a again: [/a, /c, /b]
C37_Witness ==
    /\ listCall.op = "addRecentPath" /\ ~listCall.fails
    /\ listCall.path = PathA
    /\ state.RecentPaths = <<PathA, PathC, PathB>>

-----------------------------------------------------------------------------
(* part_004: scene operations that work with the cached table at the same
   time.  EntryEnvirons hands out the cached slice itself; a slice is an array
   of cap cells of which the first len are its elements. *)

\* runtime.growslice for the small slices used here: a full array of cap
\* cells is replaced by one of twice the size (of one cell when cap is 0)
growCap(cap) == IF cap = 0 THEN 1 ELSE 2 * cap

GoSlice(arr, n) == [arr |-> arr, len |-> n]

\* the elements of a slice
Elems(s) == SubSeq(s.arr, 1, s.len)

\* append(s, e): writes the cell after the last element when the array has
\* one, otherwise copies the elements into a new array; moved tells which
goAppend(s, e) ==
    IF s.len < Len(s.arr)
    THEN [arr |-> [s.arr EXCEPT ![s.len + 1] = e], len |-> s.len + 1, moved |-> FALSE]
    ELSE [arr |-> Elems(s) \o <<e>> \o
                  [i \in 1..(growCap(Len(s.arr)) - s.len - 1) |-> <<>>],
          len |-> s.len + 1, moved |-> TRUE]

RECURSIVE appendAll(_, _)
appendAll(s, es) ==
    IF es = <<>> THEN s
    ELSE appendAll(TheOne({GoSlice(r.arr, r.len) : r \in {goAppend(s, es[1])}}), Tail(es))

\* forgeEnv as EntryEnvirons appends it: e.Name + "=" + e.Eval
RECURSIVE forgeStrings(_)
forgeStrings(forgeEnv) ==
    IF forgeEnv = <<>> THEN <<>>
    ELSE <<forgeEnv[1][1] \o <<"=">> \o forgeEnv[1][2]>> \o forgeStrings(Tail(forgeEnv))

\* the slice EntryEnvirons builds and caches: os.Environ(), whose array is
\* full, then config.Envs, then the entry service's variables
builtSlice(cfg) ==
    appendAll(GoSlice(cfg.Environ, Len(cfg.Environ)), cfg.Envs \o forgeStrings(cfg.Forge))

\* a.config.Scene
SceneTmpl ==
    <<"/", "$", "S", "H", "O", "T", "/", "$", "E", "L", "E", "M", ".", "$", "V",
      "E", "R", ".", "$", "E", "X", "T">>

OsHome == <<"H", "=", "h">>
OsUser == <<"U", "=", "u">>

\* the process environments explored: the built slice of the first has a
\* free cell, the built slice of the second has none
ShareEnvirons == {<<OsHome>>, <<OsHome, OsUser>>}
ShareSites ==
    {[Environ |-> os, Forge |-> <<ForgeShot>>, Envs |-> <<EnvNewVerV01>>,
      Programs |-> <<MayaProgram, NukeProgram>>] : os \in ShareEnvirons}

ShareOps == {"ListElements", "LastVersionOfElement", "NewElement", "OpenScene"}

Lit(key, val) == [k |-> "lit", e |-> key \o <<"=">> \o val]

\* the statements of each operation after env, err := a.EntryEnvirons(path):
\* lit appends a fixed string, newver appends "VER=" + getEnv("NEW_VER", env),
\* eval is scene := evalEnvString(a.config.Scene, env), put appends
\* "SCENE=" + scene, use is cmd.Env = env
ListElementsStmts ==
    <<Lit(KeyElem, <<ElemGroup>>), Lit(KeyVer, <<VerGroup>>), Lit(KeyExt, <<ExtGroup>>),
      [k |-> "eval"]>>
LastVersionStmts ==
    <<Lit(KeyElem, ElemMain), Lit(KeyVer, <<VerGroup>>), Lit(KeyExt, MayaProgram.Ext),
      [k |-> "eval"]>>
NewElementStmts ==
    <<Lit(KeyElem, ElemMain), [k |-> "newver"], Lit(KeyExt, MayaProgram.Ext),
      Lit(KeyForgeSession, SessionKey), [k |-> "eval"], [k |-> "put"], [k |-> "use"]>>
OpenSceneStmts ==
    <<Lit(KeyElem, ElemMain), Lit(KeyVer, <<"v", "0", "0", "2">>),
      Lit(KeyExt, NukeProgram.Ext), Lit(KeyForgeSession, SessionKey),
      [k |-> "eval"], [k |-> "put"], [k |-> "use"]>>

StmtsOf(op) ==
    CASE op = "ListElements" -> ListElementsStmts
      [] op = "LastVersionOfElement" -> LastVersionStmts
      [] op = "NewElement" -> NewElementStmts
      [] op = "OpenScene" -> OpenSceneStmts
      [] OTHER -> <<>>

\* an operation: ret is "start" before EntryEnvirons returned, "run" while
\* it holds its slice, and how it ended afterwards; pc statements are done; env is its local slice, on the cached array while shared and on
\* an array of its own afterwards; own are the strings it appended; seen is
\* the table it last read and expect the cached table with its own strings
SceneFlight(op, ret, pc, shared, arr, n, own, scene, seen, expect) ==
    [op |-> op, ret |-> ret, pc |-> pc, shared |-> shared, arr |-> arr, len |-> n,
     own |-> own, scene |-> scene, seen |-> seen, expect |-> expect]

NoSceneFlight == SceneFlight("none", "ok", 0, FALSE, <<>>, 0, <<>>, <<>>, <<>>, <<>>)

\* the local slice env of an operation, given the cached array
envOf(c, cached) == GoSlice(IF c.shared THEN cached ELSE c.arr, c.len)

\* the string a statement appends to the table tab of the operation c
appended(st, c, tab) ==
    CASE st.k = "lit" -> st.e
      [] st.k = "newver" -> KeyVer \o <<"=">> \o getEnv(KeyNewVer, tab)
      [] OTHER -> KeyScene \o <<"=">> \o c.scene

\* env = append(env, e) in the operation c: what becomes of c and of the
\* cached array
appendStmt(c, cached, e) ==
    TheOne({[c |-> [c EXCEPT !.pc = c.pc + 1,
                             !.shared = c.shared /\ ~r.moved,
                             !.arr = IF c.shared /\ ~r.moved THEN <<>> ELSE r.arr,
                             !.len = r.len,
                             !.own = Append(c.own, e)],
             cached |-> IF c.shared /\ ~r.moved THEN r.arr ELSE cached] :
               r \in {goAppend(envOf(c, cached), e)}})

\* a statement that reads env
readStmt(st, c, cached, built) ==
    TheOne({[c |-> [c EXCEPT !.pc = c.pc + 1,
                             !.scene = IF st.k = "eval" THEN evalEnvString(SceneTmpl, tab)
                                       ELSE c.scene,
                             !.seen = tab,
                             !.expect = built \o c.own],
             cached |-> cached] :
               tab \in {Elems(envOf(c, cached))}})

\* the statement after pc of the operation c
sceneStmt(c, cached, built) ==
    TheOne({IF st.k \in {"eval", "use"} THEN readStmt(st, c, cached, built)
            ELSE appendStmt(c, cached, appended(st, c, Elems(envOf(c, cached)))) :
               st \in {StmtsOf(c.op)[c.pc + 1]}})

InitShare ==
    /\ history = <<>> /\ historyIdx = 0 /\ state = Nil /\ session = TRUE
    /\ cachedEnvs = {} /\ navCall = NoCallCached /\ envFetches = 0
    /\ inFlight = [t \in Flights |-> NoSceneFlight]
    /\ IdleEnv /\ IdleEval /\ IdleList
    /\ config \in ShareSites
    /\ disk = [dirs |-> {}, files |-> {}]
    /\ sceneCall = [op |-> "none"]

\* a scene operation is called on the leaf
StartScene ==
    \E t \in Flights, op \in ShareOps :
       /\ inFlight[t].ret \in Landed
       /\ inFlight' = [inFlight EXCEPT ![t] =
              SceneFlight(op, "start", 0, FALSE, <<>>, 0, <<>>, <<>>, <<>>, <<>>)]
       /\ UNCHANGED <<history, historyIdx, state, session, cachedEnvs, navCall,
                      envFetches, envVars, evalVars, sceneVars, listVars>>

\* env, err := a.EntryEnvirons(path), under cacheLock: the cached slice, or
\* the one built from a fetch that may fail
EntryEnvironsStep ==
    \E t \in Flights :
       /\ inFlight[t].ret = "start"
       /\ \/ /\ SceneDirPath \in cachedEnvs
             /\ inFlight' = [inFlight EXCEPT ![t].ret = "run", ![t].shared = TRUE,
                                             ![t].len = Len(envStart)]
             /\ UNCHANGED <<cachedEnvs, envFetches, envVars>>
          \/ /\ SceneDirPath \notin cachedEnvs
             /\ inFlight' = [inFlight EXCEPT ![t].ret = "err"]
             /\ UNCHANGED <<cachedEnvs, envFetches, envVars>>
          \/ /\ SceneDirPath \notin cachedEnvs
             /\ \E s \in {builtSlice(config)} :
                  /\ envTab' = s.arr
                  /\ envStart' = Elems(s)
                  /\ inFlight' = [inFlight EXCEPT ![t].ret = "run", ![t].shared = TRUE,
                                                  ![t].len = s.len]
             /\ cachedEnvs' = cachedEnvs \cup {SceneDirPath}
             /\ envFetches' = 1
             /\ UNCHANGED envCall
       /\ UNCHANGED <<history, historyIdx, state, session, navCall,
                      evalVars, sceneVars, listVars>>

\* the next statement of an operation of op that holds its slice
SceneStep(op) ==
    \E t \in Flights :
       /\ inFlight[t].op = op
       /\ inFlight[t].ret = "run"
       /\ \E r \in {sceneStmt(inFlight[t], envTab, envStart)} :
            /\ inFlight' = [inFlight EXCEPT ![t] =
                   IF r.c.pc = Len(StmtsOf(op)) THEN [r.c EXCEPT !.ret = "ok"] ELSE r.c]
            /\ envTab' = r.cached
       /\ UNCHANGED <<history, historyIdx, state, session, cachedEnvs, navCall,
                      envFetches, envCall, envStart, evalVars, sceneVars, listVars>>

ListElementsStep == SceneStep("ListElements")
LastVersionStep == SceneStep("LastVersionOfElement")
NewElementStep == SceneStep("NewElement")
OpenSceneStep == SceneStep("OpenScene")

NextShare ==
    \/ StartScene
    \/ EntryEnvironsStep
    \/ ListElementsStep
    \/ LastVersionStep
    \/ NewElementStep
    \/ OpenSceneStep

SpecShare == InitShare /\ [][NextShare]_vars

\* the cached table: the elements of the cached slice
CachedTable == SubSeq(envTab, 1, Len(envStart))

\* the names of the per-call variables
SyntheticKeys == {KeyElem, KeyVer, KeyExt, KeyScene, KeyForgeSession}

\* what an operation read is the cached table followed by what the
\* operation itself appended
ReadsOwnTable ==
    \A t \in Flights :
       inFlight[t].op \in ShareOps => inFlight[t].seen = inFlight[t].expect

\* the cached table is the built one and holds none of the per-call variables
CacheHoldsBuiltTable ==
    SceneDirPath \in cachedEnvs =>
       /\ CachedTable = Elems(builtSlice(config))
       /\ \A i \in 1..Len(CachedTable) :
             SplitN(CachedTable[i], "=", 2)[1] \notin SyntheticKeys

\* C35: while scene operations of the same path run at the same time, the
\* table an operation reads holds the cached table followed by the variables
\* that operation itself appended and nothing of another operation, and the
\* cached table is the built one and holds none of the per-call variables
C35_SyntheticVarsStayPrivate == ReadsOwnTable /\ CacheHoldsBuiltTable

====
